---- MODULE Spec2Model ----
(***************************************************************************)
(* UART receive ring buffer of the STM32F4 mruby/c port.                   *)
(*                                                                         *)
(* A DMA stream (the receive engine) deposits received bytes into rxfifo   *)
(* and counts its NDTR register down; the write position is derived from   *)
(* NDTR.  The application side (uart_read, uart_gets, uart_can_read_line,  *)
(* uart_bytes_available, uart_clear_rx_buffer, ...) owns the read position *)
(* rx_rd.  The engine and the application interleave at every read of NDTR *)
(* and at every copied byte.                                               *)
(***************************************************************************)
EXTENDS Integers, Sequences, FiniteSets, TLC

VARIABLES
  rxfifo_size,  \* UART_HANDLE.rxfifo_size
  rxfifo,       \* UART_HANDLE.rxfifo[]   (index 0 .. rxfifo_size-1)
  rx_rd,        \* UART_HANDLE.rx_rd      (read position)
  delimiter,    \* UART_HANDLE.delimiter
  NDTR,         \* hal_uart->hdmarx->Instance->NDTR (remaining transfer count)
  BaudRate,     \* hal_uart->Init.BaudRate
  Parity,       \* hal_uart->Init.Parity
  WordLength,   \* hal_uart->Init.WordLength
  StopBits,     \* hal_uart->Init.StopBits
  pc,           \* position of the application side
  size,         \* argument `size' of the running uart_read / uart_gets / uart_write
  buf,          \* bytes stored through `buf' so far by the running call
  cnt,          \* local `cnt' of uart_read
  ba,           \* local `ba' of uart_read / uart_gets (bytes left to copy)
  len,          \* local `len' of uart_gets
  idx,          \* local `idx' of uart_can_read_line (its start value)
  rx_wr,        \* local `rx_wr' (the write position a call has read)
  ret,          \* value returned by the call that has just finished
  tx,           \* bytes handed to HAL_UART_Transmit by the running call
  hal_status,   \* status the last HAL call of the running call returned
  fifo,         \* history: bytes delivered by the engine and not yet taken
  want,         \* history: the bytes FIFO order assigns to the running call
  mark,         \* history: number of bytes pending when rx_wr was read
  chunks,       \* history: polls of the running uart_read that found bytes
                \*          (uart_gets: 1 once a poll has found no line)
  rd0,          \* history: rx_rd when the running call was entered
  retry,        \* history: the line a failed uart_gets has left pending
  hndl,         \* unit_num of the UART_HANDLE the Ruby instance holds (0: none)
  raised,       \* exception class the running method has raised
  method,       \* the method of class UART that is running
  rv,           \* kind of the value the method returns to Ruby
  args,         \* the arguments v[] of the running method
  boot_i,       \* local `i' of check_boot_mode
  spi_freq,     \* argument `freq' of the last spi_setmode
  spi_n,        \* local `n' of spi_setmode: the index into TBL_PRESCALER
  BaudRatePrescaler,  \* hspi->Init.BaudRatePrescaler (as the divisor)
  CLKPolarity,  \* hspi->Init.CLKPolarity
  CLKPhase,     \* hspi->Init.CLKPhase
  FirstBit,     \* hspi->Init.FirstBit
  spi_ret,      \* value the last spi_setmode returned
  gpio_val,     \* argument `val' of gpio_set_pin_handle (<< >>: not called)
  pin,          \* PIN_HANDLE *pin: port and num
  gpio_ret,     \* value gpio_set_pin_handle returned
  uarts,        \* the UART_HANDLE of every unit of TBL_UART_HANDLE
  instances,    \* the UART_HANDLE * each UART instance holds (0: not created)
  reading,      \* the instance whose uart_read is under way, and its `cnt'
  created,      \* history: the unit each instance was created for
  returned,     \* history: the bytes each instance has returned
  delivered     \* history: number of bytes the engine has stored, per unit

vars == << rxfifo_size, rxfifo, rx_rd, delimiter, NDTR, BaudRate, Parity,
           WordLength, StopBits, pc, size, buf, cnt, ba, len, idx, rx_wr, ret,
           tx, hal_status, fifo, want, mark, chunks, rd0, retry, hndl, raised,
           method, rv, args, boot_i, spi_freq, spi_n, BaudRatePrescaler,
           CLKPolarity, CLKPhase, FirstBit, spi_ret, gpio_val, pin, gpio_ret,
           uarts, instances, reading, created, returned, delivered >>

ring  == << rxfifo_size, rxfifo, delimiter, NDTR >>
cfg   == << BaudRate, Parity, WordLength, StopBits >>
ruby  == << hndl, raised, method, rv, args >>
spi   == << spi_freq, spi_n, BaudRatePrescaler, CLKPolarity, CLKPhase,
           FirstBit, spi_ret >>
gpio  == << gpio_val, pin, gpio_ret >>
multi == << uarts, instances, reading, created, returned, delivered >>
other == << spi, gpio, multi >>
rest  == << boot_i, other >>

----------------------------------------------------------------------------
(* Bounds of the model.                                                    *)

RingSize == 4      \* largest capacity of the modelled ring (UART_SIZE_RXFIFO)
UnitRing == 2      \* capacity of the ring when the whole unit is modelled
MaxRead  == 3      \* largest `size' passed to uart_read
MaxGets  == 4      \* largest `size' passed to uart_gets
MaxSent  == 3      \* bytes delivered in all when several units are modelled

(* Program constants.                                                      *)

LF      == 10      \* '\n', the delimiter of every unit
NUL     == 0       \* '\0', the terminator uart_gets stores
U16Mod  == 65536   \* uint16_t arithmetic

RxBytes == {65, LF}           \* bytes the engine may deliver ('A' and '\n')
NoByte  == 0 - 1              \* history marker: a byte taken that was never delivered

U16(x) == x % U16Mod

----------------------------------------------------------------------------
(* The ring-buffer functions.                                              *)

\* A plausible slip: the remaining count taken for the position.
uart_get_wr_pos_remaining == NDTR

\* uart_get_wr_pos: the Rx FIFO write position.
uart_get_wr_pos == rxfifo_size - NDTR

\* A plausible slip: the operands of the wrapped case exchanged.
uart_bytes_available_swapped(rd, wr) ==
  IF rd <= wr THEN wr - rd
              ELSE rxfifo_size - wr + rd

\* uart_bytes_available, given the value read for rx_wr.
uart_bytes_available(rd, wr) ==
  IF rd <= wr THEN wr - rd
              ELSE rxfifo_size - rd + wr

\* uart_is_readable
uart_is_readable(rd, wr) == IF rd # wr THEN 1 ELSE 0

\* A plausible slip: the wrapped length one short.
LineLength_short(rd, i) ==
  IF rd < i THEN i - rd
            ELSE rxfifo_size - rd + i - 1

\* The length uart_can_read_line returns once rxfifo[i-1] was the delimiter
\* (i is idx after the post-increment, before any wrap).
LineLength(rd, i) ==
  IF rd < i THEN i - rd
            ELSE rxfifo_size - rd + i

\* `if( idx >= hndl->rxfifo_size ) idx = 0;'
WrapIdx(i) == IF i >= rxfifo_size THEN 0 ELSE i

\* The while loop of uart_can_read_line, from index i up to wr.
RECURSIVE ScanLine(_, _, _)
ScanLine(rd, i, wr) ==
  IF i = wr THEN 0
  ELSE IF rxfifo[i] = delimiter THEN LineLength(rd, U16(i + 1))
  ELSE ScanLine(rd, WrapIdx(U16(i + 1)), wr)

\* uart_can_read_line, given the value read for rx_wr.
uart_can_read_line(rd, wr) == ScanLine(rd, U16(rd), wr)

\* A plausible slip: the read position wrapped one slot early.
NextRd_early(rd) == IF rd + 1 >= rxfifo_size - 1 THEN 0 ELSE rd + 1

\* A plausible slip: `>' for `>=' in the wrap of the read position.
NextRd_gt(rd) == IF rd + 1 > rxfifo_size THEN 0 ELSE rd + 1

\* `hndl->rx_rd++; if( hndl->rx_rd >= hndl->rxfifo_size ) hndl->rx_rd = 0;'
NextRd(rd) == IF rd + 1 >= rxfifo_size THEN 0 ELSE rd + 1

\* A plausible slip: `>' for `>=' in the test of uart_gets.
BufferTooSmall_gt(l, n) == l > n

\* `if( len >= size ) return -1;' of uart_gets
BufferTooSmall(l, n) == l >= n

\* A plausible slip: the delimiter left out of the copy.
GetsCopyCount_strip(l) == l - 1

\* `for( int ba = len; ba > 0; ba-- )' of uart_gets: the bytes to copy.
GetsCopyCount(l) == l

\* A plausible slip: the buffer cleared by rewinding to the start.
ClearedRd_zero(wr) == 0

\* `hndl->rx_rd = uart_get_wr_pos( hndl );' of uart_clear_rx_buffer
ClearedRd(wr) == wr

----------------------------------------------------------------------------
(* Initial state: static storage is zeroed, the DMA stream is not armed.   *)

\* hspi3 as the generated start-up code sets it up (mode 0, 656 kHz, MSB
\* first); spi_setmode has not been called.
InitSpi ==
  /\ spi_freq = 0 /\ spi_n = 0 /\ spi_ret = 0
  /\ BaudRatePrescaler = 64
  /\ CLKPolarity = "LOW" /\ CLKPhase = "1EDGE" /\ FirstBit = "MSB"

\* No pin handle has been set.
InitGpio ==
  /\ gpio_val = << >>
  /\ pin = [port |-> 0, num |-> 0]
  /\ gpio_ret = 0

\* The units of TBL_UART_HANDLE after uart_init, no byte received, and no
\* instance of class UART.  A ring slot holds a byte and, as history, the
\* unit it was received on and its number there.
UartUnits == { 1, 2, 6 }
Insts     == { "uart_a", "uart_b" }
NoSlot    == [b |-> 0, id |-> << 0, 0 >>]
NoRead    == [inst |-> "", cnt |-> 0]

InitMulti ==
  /\ uarts = [u \in UartUnits |->
               [rx_rd |-> 0, NDTR |-> rxfifo_size, delimiter |-> LF,
                rxfifo |-> [k \in 0 .. rxfifo_size - 1 |-> NoSlot],
                BaudRate |-> 115200]]
  /\ instances = [a \in Insts |-> 0]
  /\ created = [a \in Insts |-> 0]
  /\ returned = [a \in Insts |-> << >>]
  /\ delivered = [u \in UartUnits |-> 0]
  /\ reading = NoRead

InitLocals ==
  /\ size = 0 /\ buf = << >> /\ cnt = 0 /\ ba = 0 /\ len = 0 /\ idx = 0
  /\ rx_wr = 0 /\ ret = 0 /\ tx = << >> /\ hal_status = "HAL_OK"
  /\ want = << >> /\ mark = 0 /\ chunks = 0 /\ rd0 = 0
  /\ boot_i = 0
  /\ InitSpi
  /\ InitGpio
  /\ InitMulti

\* No instance of class UART exists and no method runs.
NoArgs == << >>

InitRuby ==
  /\ hndl = 0 /\ raised = "none" /\ method = "none" /\ rv = "none"
  /\ args = NoArgs

\* The UART of a freshly reset MCU as the generated start-up code sets it up.
InitConfig ==
  BaudRate = 115200 /\ Parity = "NONE" /\ WordLength = "8B" /\ StopBits = "1"

InitHandle(sizes) ==
  /\ rxfifo_size \in sizes
  /\ rxfifo = [i \in 0 .. rxfifo_size - 1 |-> 0]
  /\ rx_rd = 0
  /\ delimiter = LF
  /\ NDTR = 0
  /\ pc = "boot"
  /\ fifo = << >> /\ retry = << >>
  /\ InitLocals

Init ==
  /\ InitHandle(2 .. RingSize)
  /\ InitConfig
  /\ InitRuby

\* A plausible slip: the stream armed over one slot less than the buffer.
uart_init_short ==
  /\ pc = "boot"
  /\ NDTR' = rxfifo_size - 1
  /\ pc' = "idle"
  /\ UNCHANGED << rxfifo_size, rxfifo, rx_rd, delimiter, fifo, retry, cfg, ruby, rest >>
  /\ UNCHANGED << size, buf, cnt, ba, len, idx, rx_wr, ret, tx, hal_status,
                  want, mark, chunks, rd0 >>

\* uart_init: HAL_UART_Receive_DMA arms the stream over the whole rxfifo.
uart_init ==
  /\ pc = "boot"
  /\ NDTR' = rxfifo_size
  /\ pc' = "idle"
  /\ UNCHANGED << rxfifo_size, rxfifo, rx_rd, delimiter, fifo, retry, cfg, ruby, rest >>
  /\ UNCHANGED << size, buf, cnt, ba, len, idx, rx_wr, ret, tx, hal_status,
                  want, mark, chunks, rd0 >>

----------------------------------------------------------------------------
(* The receive engine.                                                     *)

\* The slot the engine stores the next received byte in.
EngineWrPos == rxfifo_size - NDTR

\* An engine that stores whatever arrives.
EngineMayStore_always == NDTR > 0

\* The engine does not advance the write position onto the read position.
EngineMayStore ==
  /\ NDTR > 0
  /\ (EngineWrPos + 1) % rxfifo_size # rx_rd

\* The engine stores one received byte and counts NDTR down, reloading it
\* with the buffer size when it reaches zero.
EngineStore(b) ==
  /\ EngineMayStore
  /\ rxfifo' = [rxfifo EXCEPT ![EngineWrPos] = b]
  /\ NDTR' = IF NDTR = 1 THEN rxfifo_size ELSE NDTR - 1
  /\ fifo' = Append(fifo, b)
  /\ UNCHANGED << rxfifo_size, rx_rd, delimiter, pc, retry, cfg, ruby, rest >>
  /\ UNCHANGED << size, buf, cnt, ba, len, idx, rx_wr, ret, tx, hal_status,
                  want, mark, chunks, rd0 >>

Engine == \E b \in RxBytes : EngineStore(b)

----------------------------------------------------------------------------
(* History bookkeeping shared by the copy loops: the byte FIFO order hands *)
(* to the application next.                                                *)

NextDelivered == IF fifo = << >> THEN NoByte ELSE Head(fifo)
TakeDelivered == IF fifo = << >> THEN fifo ELSE Tail(fifo)
Pending(n)    == IF n <= Len(fifo) THEN SubSeq(fifo, 1, n) ELSE fifo

ResetLocals ==
  /\ size' = 0 /\ buf' = << >> /\ cnt' = 0 /\ ba' = 0 /\ len' = 0 /\ idx' = 0
  /\ rx_wr' = 0 /\ ret' = 0 /\ tx' = << >> /\ hal_status' = "HAL_OK"
  /\ want' = << >> /\ mark' = 0 /\ chunks' = 0 /\ rd0' = 0

----------------------------------------------------------------------------
(* uart_bytes_available and uart_is_readable: one read of NDTR.            *)

CallBytesAvailable ==
  /\ pc = "idle"
  /\ rx_wr' = U16(uart_get_wr_pos)
  /\ mark' = Len(fifo)
  /\ rd0' = rx_rd
  /\ ret' = uart_bytes_available(rx_rd, U16(uart_get_wr_pos))
  /\ pc' = "ba_done"
  /\ UNCHANGED << ring, cfg, ruby, rest, rx_rd, fifo, retry, size, buf, cnt, ba, len, idx,
                  tx, hal_status, want, chunks >>

CallIsReadable ==
  /\ pc = "idle"
  /\ rx_wr' = uart_get_wr_pos
  /\ mark' = Len(fifo)
  /\ rd0' = rx_rd
  /\ ret' = uart_is_readable(rx_rd, uart_get_wr_pos)
  /\ pc' = "readable_done"
  /\ UNCHANGED << ring, cfg, ruby, rest, rx_rd, fifo, retry, size, buf, cnt, ba, len, idx,
                  tx, hal_status, want, chunks >>

----------------------------------------------------------------------------
(* uart_can_read_line: reads NDTR once, then scans rxfifo.                 *)

CallCanReadLine ==
  /\ pc = "idle"
  /\ idx' = U16(rx_rd)
  /\ rx_wr' = U16(uart_get_wr_pos)
  /\ mark' = Len(fifo)
  /\ rd0' = rx_rd
  /\ pc' = "crl_scan"
  /\ UNCHANGED << ring, cfg, ruby, rest, rx_rd, fifo, retry, size, buf, cnt, ba, len, ret,
                  tx, hal_status, want, chunks >>

\* A plausible slip: the write position read again when the scan runs.
CanReadLineScan_reread ==
  /\ pc = "crl_scan"
  /\ ret' = ScanLine(rx_rd, idx, U16(uart_get_wr_pos))
  /\ pc' = "crl_done"
  /\ UNCHANGED << ring, cfg, ruby, rest, rx_rd, fifo, retry, size, buf, cnt, ba, len, idx,
                  rx_wr, tx, hal_status, want, mark, chunks, rd0 >>

CanReadLineScan ==
  /\ pc = "crl_scan"
  /\ ret' = ScanLine(rx_rd, idx, rx_wr)
  /\ pc' = "crl_done"
  /\ UNCHANGED << ring, cfg, ruby, rest, rx_rd, fifo, retry, size, buf, cnt, ba, len, idx,
                  rx_wr, tx, hal_status, want, mark, chunks, rd0 >>

----------------------------------------------------------------------------
(* uart_read( hndl, buffer, size )                                         *)

CallRead(n) ==
  /\ pc = "idle"
  /\ size' = n
  /\ cnt' = n
  /\ rd0' = rx_rd
  /\ retry' = << >>
  /\ pc' = "read_loop"
  /\ UNCHANGED << ring, cfg, ruby, rest, rx_rd, fifo, buf, ba, len, idx, rx_wr, ret, tx,
                  hal_status, want, mark, chunks >>

\* `while( cnt > 0 )' is false: `return size;'
ReadReturn ==
  /\ pc = "read_loop"
  /\ ~ (cnt > 0)
  /\ ret' = size
  /\ pc' = "read_done"
  /\ UNCHANGED << ring, cfg, ruby, rest, rx_rd, fifo, retry, size, buf, cnt, ba, len, idx,
                  rx_wr, tx, hal_status, want, mark, chunks, rd0 >>

\* A plausible slip: the remaining count dropped when fewer bytes than asked
\* for are pending, so that the call returns after its first copy.
ReadPoll_partial ==
  /\ pc = "read_loop"
  /\ cnt > 0
  /\ LET wr    == U16(uart_get_wr_pos)
         avail == uart_bytes_available(rx_rd, wr)
     IN  /\ rx_wr' = wr
         /\ mark' = Len(fifo)
         /\ IF avail = 0
              THEN UNCHANGED << cnt, ba, pc, chunks >>
              ELSE /\ IF avail < cnt
                        THEN ba' = avail /\ cnt' = 0
                        ELSE ba' = cnt /\ cnt' = 0
                   /\ chunks' = chunks + 1
                   /\ pc' = "read_copy"
  /\ UNCHANGED << ring, cfg, ruby, rest, rx_rd, fifo, retry, size, buf, len, idx, ret, tx,
                  hal_status, want, rd0 >>

\* A plausible slip: the copy put off until all that is asked for is pending
\* at once.
ReadPoll_atonce ==
  /\ pc = "read_loop"
  /\ cnt > 0
  /\ LET wr    == U16(uart_get_wr_pos)
         avail == uart_bytes_available(rx_rd, wr)
     IN  /\ rx_wr' = wr
         /\ mark' = Len(fifo)
         /\ IF avail < cnt
              THEN UNCHANGED << cnt, ba, pc, chunks >>
              ELSE /\ ba' = cnt /\ cnt' = 0
                   /\ chunks' = chunks + 1
                   /\ pc' = "read_copy"
  /\ UNCHANGED << ring, cfg, ruby, rest, rx_rd, fifo, retry, size, buf, len, idx, ret, tx,
                  hal_status, want, rd0 >>

\* A plausible slip: once a byte is pending, all that is still asked for is
\* copied.
ReadPoll_greedy ==
  /\ pc = "read_loop"
  /\ cnt > 0
  /\ LET wr    == U16(uart_get_wr_pos)
         avail == uart_bytes_available(rx_rd, wr)
     IN  /\ rx_wr' = wr
         /\ mark' = Len(fifo)
         /\ IF avail = 0
              THEN UNCHANGED << cnt, ba, pc, chunks >>
              ELSE /\ ba' = cnt /\ cnt' = 0
                   /\ chunks' = chunks + 1
                   /\ pc' = "read_copy"
  /\ UNCHANGED << ring, cfg, ruby, rest, rx_rd, fifo, retry, size, buf, len, idx, ret, tx,
                  hal_status, want, rd0 >>

\* One poll: `ba = uart_bytes_available(hndl)', then the split of cnt.
ReadPoll ==
  /\ pc = "read_loop"
  /\ cnt > 0
  /\ LET wr    == U16(uart_get_wr_pos)
         avail == uart_bytes_available(rx_rd, wr)
     IN  /\ rx_wr' = wr
         /\ mark' = Len(fifo)
         /\ IF avail = 0
              THEN UNCHANGED << cnt, ba, pc, chunks >>
              ELSE /\ IF avail < cnt
                        THEN ba' = avail /\ cnt' = cnt - avail
                        ELSE ba' = cnt /\ cnt' = 0
                   /\ chunks' = chunks + 1
                   /\ pc' = "read_copy"
  /\ UNCHANGED << ring, cfg, ruby, rest, rx_rd, fifo, retry, size, buf, len, idx, ret, tx,
                  hal_status, want, rd0 >>

\* One round of the copy loop: `*buf++ = hndl->rxfifo[hndl->rx_rd++]'.
ReadCopy ==
  /\ pc = "read_copy"
  /\ buf' = Append(buf, rxfifo[rx_rd])
  /\ rx_rd' = NextRd(rx_rd)
  /\ want' = Append(want, NextDelivered)
  /\ fifo' = TakeDelivered
  /\ ba' = ba - 1
  /\ pc' = IF ba - 1 > 0 THEN "read_copy" ELSE "read_loop"
  /\ UNCHANGED << ring, cfg, ruby, rest, retry, size, cnt, len, idx, rx_wr, ret, tx,
                  hal_status, mark, chunks, rd0 >>

----------------------------------------------------------------------------
(* uart_gets( hndl, buffer, size )                                         *)

CallGets(n) ==
  /\ pc = "idle"
  /\ size' = n
  /\ rd0' = rx_rd
  /\ pc' = "gets_loop"
  /\ UNCHANGED << ring, cfg, ruby, rest, rx_rd, fifo, retry, buf, cnt, ba, len, idx, rx_wr,
                  ret, tx, hal_status, want, mark, chunks >>

\* uart_can_read_line inside the wait loop: the read of NDTR.
GetsPoll ==
  /\ pc = "gets_loop"
  /\ idx' = U16(rx_rd)
  /\ rx_wr' = U16(uart_get_wr_pos)
  /\ mark' = Len(fifo)
  /\ pc' = "gets_scan"
  /\ UNCHANGED << ring, cfg, ruby, rest, rx_rd, fifo, retry, size, buf, cnt, ba, len, ret,
                  tx, hal_status, want, chunks, rd0 >>

\* A plausible slip: the wait loop left as soon as any byte is pending.
GetsScan_anybyte ==
  /\ pc = "gets_scan"
  /\ LET line == ScanLine(rx_rd, idx, rx_wr)
         l    == IF line > 0 THEN line
                 ELSE uart_bytes_available(rx_rd, rx_wr)
     IN  /\ len' = l
         /\ IF ~ (l > 0)
              THEN /\ pc' = "gets_loop"
                   /\ chunks' = 1
                   /\ UNCHANGED << ba, ret, retry >>
              ELSE IF BufferTooSmall(l, size)
                THEN /\ ret' = 0 - 1
                     /\ retry' = Pending(l)
                     /\ pc' = "gets_done"
                     /\ UNCHANGED << ba, chunks >>
                ELSE /\ ba' = GetsCopyCount(l)
                     /\ pc' = "gets_copy"
                     /\ UNCHANGED << ret, retry, chunks >>
  /\ UNCHANGED << ring, cfg, ruby, rest, rx_rd, fifo, size, buf, cnt, idx, rx_wr, tx,
                  hal_status, want, mark, rd0 >>

\* The scan, `if( len > 0 ) break;' and `if( len >= size ) return -1;'.
GetsScan ==
  /\ pc = "gets_scan"
  /\ LET l == ScanLine(rx_rd, idx, rx_wr)
     IN  /\ len' = l
         /\ IF ~ (l > 0)
              THEN /\ pc' = "gets_loop"
                   /\ chunks' = 1
                   /\ UNCHANGED << ba, ret, retry >>
              ELSE IF BufferTooSmall(l, size)
                THEN /\ ret' = 0 - 1
                     /\ retry' = Pending(l)
                     /\ pc' = "gets_done"
                     /\ UNCHANGED << ba, chunks >>
                ELSE /\ ba' = GetsCopyCount(l)
                     /\ pc' = "gets_copy"
                     /\ UNCHANGED << ret, retry, chunks >>
  /\ UNCHANGED << ring, cfg, ruby, rest, rx_rd, fifo, size, buf, cnt, idx, rx_wr, tx,
                  hal_status, want, mark, rd0 >>

\* One round of the copy loop; after the last one `*buf = 0; return len;'.
GetsCopy ==
  /\ pc = "gets_copy"
  /\ rx_rd' = NextRd(rx_rd)
  /\ want' = Append(want, NextDelivered)
  /\ fifo' = TakeDelivered
  /\ ba' = ba - 1
  /\ IF ba - 1 > 0
       THEN /\ buf' = Append(buf, rxfifo[rx_rd])
            /\ pc' = "gets_copy"
            /\ UNCHANGED ret
       ELSE /\ buf' = Append(Append(buf, rxfifo[rx_rd]), NUL)
            /\ ret' = len
            /\ pc' = "gets_done"
  /\ UNCHANGED << ring, cfg, ruby, rest, retry, size, cnt, len, idx, rx_wr, tx, hal_status,
                  mark, chunks, rd0 >>

----------------------------------------------------------------------------
(* uart_clear_rx_buffer: `hndl->rx_rd = uart_get_wr_pos( hndl );'          *)

\* The read of the write position.
CallClear ==
  /\ pc = "idle"
  /\ rx_wr' = uart_get_wr_pos
  /\ mark' = Len(fifo)
  /\ rd0' = rx_rd
  /\ retry' = << >>
  /\ pc' = "clear_store"
  /\ UNCHANGED << ring, cfg, ruby, rest, rx_rd, fifo, size, buf, cnt, ba, len, idx, ret, tx,
                  hal_status, want, chunks >>

\* A plausible slip: the buffer cleared by arming the DMA stream anew.
ClearStore_rearm ==
  /\ pc = "clear_store"
  /\ rx_rd' = 0
  /\ NDTR' = rxfifo_size
  /\ fifo' = << >>
  /\ pc' = "clear_done"
  /\ UNCHANGED << rxfifo_size, rxfifo, delimiter, cfg, ruby, rest, retry, size, buf, cnt,
                  ba, len, idx, rx_wr, ret, tx, hal_status, want, mark, chunks,
                  rd0 >>

\* The store to rx_rd: the bytes that were pending at the read are dropped.
ClearStore ==
  /\ pc = "clear_store"
  /\ rx_rd' = ClearedRd(rx_wr)
  /\ fifo' = SubSeq(fifo, mark + 1, Len(fifo))
  /\ pc' = "clear_done"
  /\ UNCHANGED << ring, cfg, ruby, rest, retry, size, buf, cnt, ba, len, idx, rx_wr, ret,
                  tx, hal_status, want, mark, chunks, rd0 >>

----------------------------------------------------------------------------
(* The call returns to the application.                                    *)

DoneStates == { "ba_done", "readable_done", "crl_done", "read_done",
                "gets_done", "clear_done", "write_done", "puts_done",
                "setmode_done" }

Return ==
  /\ pc \in DoneStates
  /\ method = "none"
  /\ pc' = "idle"
  /\ retry' = IF pc = "gets_done" /\ ret >= 0 THEN << >> ELSE retry
  /\ ResetLocals
  /\ UNCHANGED << ring, cfg, ruby, rest, rx_rd, fifo >>

----------------------------------------------------------------------------

Calls ==
  \/ CallBytesAvailable
  \/ CallIsReadable
  \/ CallCanReadLine
  \/ CanReadLineScan
  \/ \E n \in 0 .. MaxRead : CallRead(n)
  \/ ReadReturn
  \/ ReadPoll
  \/ ReadCopy
  \/ \E n \in 1 .. MaxGets : CallGets(n)
  \/ GetsPoll
  \/ GetsScan
  \/ GetsCopy
  \/ CallClear
  \/ ClearStore
  \/ Return

App == uart_init \/ Calls

Next == Engine \/ App

Spec == Init /\ [][Next]_vars

\* The processor keeps executing a uart_read that is under way, and the
\* engine keeps storing bytes while it may.
ReadStep == ReadPoll \/ ReadCopy \/ ReadReturn

FairSpec == Spec /\ WF_vars(ReadStep) /\ WF_vars(Engine)

----------------------------------------------------------------------------
(* The transmit side and the mode of the unit.                             *)

HalStatus == { "HAL_OK", "HAL_ERROR", "HAL_TIMEOUT" }
TxStrings == { << >>, << 65 >>, << LF >>, << 65, LF >>, << LF, 65 >> }
BaudArgs  == { 0 - 1, 0, 9600 }
ModeArgs  == (0 - 1) .. 3

\* uart_write: `HAL_UART_Transmit( ... ); return size;'
CallWrite(s, st) ==
  /\ pc = "idle"
  /\ size' = Len(s)
  /\ tx' = tx \o s
  /\ hal_status' = st
  /\ ret' = Len(s)
  /\ rd0' = rx_rd
  /\ pc' = "write_done"
  /\ UNCHANGED << ring, cfg, ruby, rest, rx_rd, fifo, retry, buf, cnt, ba, len, idx, rx_wr,
                  want, mark, chunks >>

\* A plausible slip: the line feed written without the test of s[len-1].
CallPuts_always(s, st) ==
  /\ pc = "idle"
  /\ size' = Len(s)
  /\ tx' = (tx \o s) \o << LF >>
  /\ hal_status' = st
  /\ rd0' = rx_rd
  /\ pc' = "puts_done"
  /\ UNCHANGED << ring, cfg, ruby, rest, rx_rd, fifo, retry, buf, cnt, ba, len, idx, rx_wr,
                  ret, want, mark, chunks >>

\* c_uart_puts: uart_write of the string, then of "\n" unless it ends in one.
CallPuts(s, st) ==
  /\ pc = "idle"
  /\ size' = Len(s)
  /\ tx' = IF Len(s) = 0 \/ s[Len(s)] # LF THEN (tx \o s) \o << LF >>
                                            ELSE tx \o s
  /\ hal_status' = st
  /\ rd0' = rx_rd
  /\ pc' = "puts_done"
  /\ UNCHANGED << ring, cfg, ruby, rest, rx_rd, fifo, retry, buf, cnt, ba, len, idx, rx_wr,
                  ret, want, mark, chunks >>

\* A plausible slip: a switch with a default, which sets no parity, and a
\* stop_bits test that falls back to one stop bit.
SetInit_default(baud, parity, stop_bits) ==
  /\ BaudRate' = IF baud >= 0 THEN baud ELSE BaudRate
  /\ Parity' = CASE parity = 1 -> "ODD"
                 [] parity = 2 -> "EVEN"
                 [] OTHER      -> "NONE"
  /\ WordLength' = CASE parity = 1 -> "9B"
                     [] parity = 2 -> "9B"
                     [] OTHER      -> "8B"
  /\ StopBits' = IF stop_bits = 2 THEN "2" ELSE "1"

\* The fields of hal_uart->Init that uart_setmode stores before it calls
\* HAL_UART_Init: a baud below 0, a parity other than 0, 1, 2 and a stop_bits
\* other than 1, 2 leave their field as it is.
SetInit(baud, parity, stop_bits) ==
  /\ BaudRate' = IF baud >= 0 THEN baud ELSE BaudRate
  /\ Parity' = CASE parity = 0 -> "NONE"
                 [] parity = 1 -> "ODD"
                 [] parity = 2 -> "EVEN"
                 [] OTHER      -> Parity
  /\ WordLength' = CASE parity = 0 -> "8B"
                     [] parity = 1 -> "9B"
                     [] parity = 2 -> "9B"
                     [] OTHER      -> WordLength
  /\ StopBits' = IF 1 <= stop_bits /\ stop_bits <= 2
                   THEN << "1", "2" >>[stop_bits]
                   ELSE StopBits

\* `if( HAL_UART_Init( hndl->hal_uart ) != HAL_OK ) return -1; return 0;'
SetmodeResult(st) == IF st # "HAL_OK" THEN 0 - 1 ELSE 0

\* A plausible slip: the receive buffer flushed when the mode is set.
uart_setmode_flush(baud, parity, stop_bits, st) ==
  /\ pc = "idle"
  /\ SetInit(baud, parity, stop_bits)
  /\ hal_status' = st
  /\ ret' = SetmodeResult(st)
  /\ rd0' = rx_rd
  /\ rx_rd' = uart_get_wr_pos
  /\ fifo' = << >>
  /\ pc' = "setmode_done"
  /\ UNCHANGED << ring, ruby, rest, retry, size, buf, cnt, ba, len, idx, rx_wr,
                  tx, want, mark, chunks >>

\* uart_setmode( hndl, baud, parity, stop_bits ); st is what HAL_UART_Init
\* returns.
uart_setmode(baud, parity, stop_bits, st) ==
  /\ pc = "idle"
  /\ SetInit(baud, parity, stop_bits)
  /\ hal_status' = st
  /\ ret' = SetmodeResult(st)
  /\ rd0' = rx_rd
  /\ pc' = "setmode_done"
  /\ UNCHANGED << ring, ruby, rest, rx_rd, fifo, retry, size, buf, cnt, ba, len, idx, rx_wr,
                  tx, want, mark, chunks >>

Unit ==
  \/ \E s \in TxStrings, st \in HalStatus : CallWrite(s, st)
  \/ \E s \in TxStrings, st \in HalStatus : CallPuts(s, st)
  \/ \E b \in BaudArgs, p \in ModeArgs, sb \in ModeArgs, st \in HalStatus :
       uart_setmode(b, p, sb, st)

InitUnit ==
  /\ InitHandle({UnitRing})
  /\ InitConfig
  /\ InitRuby

NextUnit == Engine \/ App \/ Unit

SpecUnit == InitUnit /\ [][NextUnit]_vars

----------------------------------------------------------------------------
(* A unit with the five bytes "AB\nCD" pending, at every offset of a ring  *)
(* of LineRing slots, and the engine at rest.                              *)

LineRing == 6
Example  == << 65, 66, LF, 67, 68 >>

InitLine ==
  /\ rxfifo_size = LineRing
  /\ rx_rd \in 0 .. rxfifo_size - 1
  /\ rxfifo = [i \in 0 .. rxfifo_size - 1 |->
                 LET k == (i - rx_rd) % rxfifo_size
                 IN  IF k < Len(Example) THEN Example[k + 1] ELSE 0]
  /\ NDTR = rxfifo_size - ((rx_rd + Len(Example)) % rxfifo_size)
  /\ delimiter = LF
  /\ pc = "idle"
  /\ fifo = Example /\ retry = << >>
  /\ InitLocals
  /\ InitConfig
  /\ InitRuby

SpecLine == InitLine /\ [][Calls]_vars

----------------------------------------------------------------------------
(* The methods of class UART.  A method runs on the handle its instance    *)
(* holds; it ends by returning a value to Ruby or by raising an exception. *)

RbDoneStates == { "rbgets_done", "rbnew_done", "rbsetmode_done",
                  "rbbreak_done", "rbwrite_done" }

\* The method returns to the Ruby program.
RbReturn ==
  /\ pc \in RbDoneStates
  /\ pc' = "idle"
  /\ method' = "none" /\ raised' = "none" /\ rv' = "none" /\ args' = NoArgs
  /\ retry' = << >>
  /\ ResetLocals
  /\ UNCHANGED << ring, cfg, rx_rd, fifo, hndl, rest >>

----------------------------------------------------------------------------
(* c_uart_gets: waits for a line, allocates a string of its length and has *)
(* uart_read fill it.                                                      *)

CallRbGets ==
  /\ pc = "idle"
  /\ hndl # 0
  /\ method' = "gets"
  /\ rd0' = rx_rd
  /\ retry' = << >>
  /\ pc' = "rbgets_loop"
  /\ UNCHANGED << ring, cfg, rx_rd, fifo, size, buf, cnt, ba, len, idx, rx_wr,
                  ret, tx, hal_status, want, mark, chunks, hndl, rest, raised, rv,
                  args >>

\* uart_can_read_line inside the wait loop: the read of NDTR.
RbGetsPoll ==
  /\ pc = "rbgets_loop"
  /\ idx' = U16(rx_rd)
  /\ rx_wr' = U16(uart_get_wr_pos)
  /\ mark' = Len(fifo)
  /\ pc' = "rbgets_scan"
  /\ UNCHANGED << ring, cfg, ruby, rest, rx_rd, fifo, retry, size, buf, cnt, ba, len,
                  ret, tx, hal_status, want, chunks, rd0 >>

\* A plausible slip: the terminating NUL counted into what uart_read is
\* asked for.
RbGetsScan_withnul(alloc) ==
  /\ pc = "rbgets_scan"
  /\ LET l == ScanLine(rx_rd, idx, rx_wr)
     IN  /\ len' = l
         /\ IF ~ (l > 0)
              THEN /\ pc' = "rbgets_loop"
                   /\ chunks' = 1
                   /\ UNCHANGED << size, cnt, rv >>
              ELSE IF ~ alloc
                THEN /\ rv' = "nil"
                     /\ pc' = "rbgets_done"
                     /\ UNCHANGED << size, cnt, chunks >>
                ELSE /\ size' = l + 1
                     /\ cnt' = l + 1
                     /\ chunks' = 0
                     /\ pc' = "read_loop"
                     /\ UNCHANGED rv
  /\ UNCHANGED << ring, cfg, rx_rd, fifo, retry, buf, ba, idx, rx_wr, ret, tx,
                  hal_status, want, mark, rd0, hndl, rest, raised, method, args >>

\* The scan and `if( len > 0 ) break;', then mrbc_string_new (alloc tells
\* whether it got memory) and the call of uart_read( hndl, buf, len ).
RbGetsScan(alloc) ==
  /\ pc = "rbgets_scan"
  /\ LET l == ScanLine(rx_rd, idx, rx_wr)
     IN  /\ len' = l
         /\ IF ~ (l > 0)
              THEN /\ pc' = "rbgets_loop"
                   /\ chunks' = 1
                   /\ UNCHANGED << size, cnt, rv >>
              ELSE IF ~ alloc
                THEN /\ rv' = "nil"
                     /\ pc' = "rbgets_done"
                     /\ UNCHANGED << size, cnt, chunks >>
                ELSE /\ size' = l
                     /\ cnt' = l
                     /\ chunks' = 0
                     /\ pc' = "read_loop"
                     /\ UNCHANGED rv
  /\ UNCHANGED << ring, cfg, rx_rd, fifo, retry, buf, ba, idx, rx_wr, ret, tx,
                  hal_status, want, mark, rd0, hndl, rest, raised, method, args >>

\* uart_read has returned: `buf[len] = 0; SET_RETURN(ret);'
RbGetsFinish ==
  /\ pc = "read_done"
  /\ method = "gets"
  /\ buf' = Append(buf, NUL)
  /\ rv' = "string"
  /\ pc' = "rbgets_done"
  /\ UNCHANGED << ring, cfg, rx_rd, fifo, retry, size, cnt, ba, len, idx, rx_wr,
                  ret, tx, hal_status, want, mark, chunks, rd0, hndl, rest, raised,
                  method, args >>

RbGets ==
  \/ CallRbGets
  \/ RbGetsPoll
  \/ \E alloc \in BOOLEAN : RbGetsScan(alloc)
  \/ RbGetsFinish
  \/ RbReturn

\* An instance of class UART exists and holds the handle of unit 1.
InitGets ==
  /\ InitHandle(2 .. RingSize)
  /\ InitConfig
  /\ hndl = 1 /\ raised = "none" /\ method = "none" /\ rv = "none"
  /\ args = NoArgs

NextGets == Engine \/ App \/ RbGets

SpecGets == InitGets /\ [][NextGets]_vars

\* The processor keeps executing a uart_gets or a gets that is under way.
GetsStep   == GetsPoll \/ GetsScan \/ GetsCopy
RbGetsStep ==
  \/ RbGetsPoll
  \/ \E alloc \in BOOLEAN : RbGetsScan(alloc)
  \/ (method = "gets" /\ ReadStep)
  \/ RbGetsFinish

FairGets == SpecGets /\ WF_vars(GetsStep) /\ WF_vars(RbGetsStep)

----------------------------------------------------------------------------
(* Arguments of the methods.  An argument that is absent is << >>, one     *)
(* that is given is << value >> (MRBC_KW_ISVALID).                         *)

IntArg(n) == [tt |-> "INTEGER", i |-> n]
StrArg    == [tt |-> "STRING", i |-> 0]

Unsupported == { "data_bits", "flow_control", "txd_pin", "rxd_pin", "rts_pin",
                 "cts_pin" }

PosArgs    == { << >>, << IntArg(0) >>, << IntArg(1) >>, << IntArg(3) >>,
                << IntArg(6) >>, << IntArg(7) >>, << StrArg >> }
UnitArgs   == { << >>, << IntArg(2) >>, << IntArg(5) >>, << StrArg >> }
KwBaudrate == { << >>, << 2400 >> }
KwBaud     == { << >>, << 0 >>, << 1200 >> }
KwParity   == { << >>, << 2 >>, << 3 >> }
KwStop     == { << >>, << 2 >>, << 3 >> }
KwOther    == { {}, Unsupported } \cup { { k } : k \in Unsupported }

\* The keywords of a call of setmode.
KwArgs ==
  [ baudrate : KwBaudrate, baud : KwBaud, parity : KwParity,
    stop_bits : KwStop, other : KwOther, pos : { << >> }, unit : { << >> } ]

\* The arguments of a call of new.
NewArgs ==
  [ baudrate : { << >> }, baud : KwBaud, parity : { << >>, << 3 >> },
    stop_bits : { << >> }, other : { {}, { "data_bits" } },
    pos : PosArgs, unit : UnitArgs ]

\* TBL_UART_HANDLE[]: the unit_num of the handle at each index (0: no handle).
\* A plausible slip: one UART_HANDLE behind every unit of the table.
TBL_UART_HANDLE_single == [i \in 0 .. 6 |-> << 0, 1, 1, 0, 0, 0, 1 >>[i + 1]]

TBL_UART_HANDLE == [i \in 0 .. 6 |-> << 0, 1, 2, 0, 0, 0, 6 >>[i + 1]]

----------------------------------------------------------------------------
(* c_uart_setmode                                                          *)

\* `baud_rate' after the two keywords were looked at: baud goes over baudrate.
KwBaudValue(kw) ==
  IF kw.baud # << >> THEN kw.baud[1]
  ELSE IF kw.baudrate # << >> THEN kw.baudrate[1]
  ELSE 0 - 1

\* `if( !MRBC_KW_ISVALID(x) ) x = mrbc_integer_value(-1);'
KwIntValue(a) == IF a # << >> THEN a[1] ELSE 0 - 1

\* A plausible slip: every baud rate under 2400 refused, 0 with them.
BaudRefused_zero(b) == b >= 0 /\ b < 2400

\* `if( baud_rate > 0 && baud_rate < 2400 ) goto ERROR_ARGUMENT;'
BaudRefused(b) == b > 0 /\ b < 2400

\* A plausible slip: the baud rate tested before the unsupported keywords.
SetmodeOutcome_baudfirst(kw, st) ==
  IF BaudRefused(KwBaudValue(kw)) THEN "ArgumentError"
  ELSE IF kw.other # {} THEN "NotImplementedError"
  ELSE IF SetmodeResult(st) # 0 THEN "ArgumentError"
  ELSE "none"

\* The exception c_uart_setmode ends with ("none": it returns normally).
SetmodeOutcome(kw, st) ==
  IF kw.other # {} THEN "NotImplementedError"
  ELSE IF BaudRefused(KwBaudValue(kw)) THEN "ArgumentError"
  ELSE IF SetmodeResult(st) # 0 THEN "ArgumentError"
  ELSE "none"

\* c_uart_setmode reaches its call of uart_setmode.
SetmodeCallsUart(kw) == kw.other = {} /\ ~ BaudRefused(KwBaudValue(kw))

\* The body of c_uart_setmode on the keywords kw.
SetmodeBody(kw, st) ==
  /\ raised' = SetmodeOutcome(kw, st)
  /\ IF SetmodeCallsUart(kw)
       THEN /\ SetInit(KwBaudValue(kw), KwIntValue(kw.parity),
                       KwIntValue(kw.stop_bits))
            /\ hal_status' = st
            /\ ret' = SetmodeResult(st)
       ELSE UNCHANGED << cfg, hal_status, ret >>

c_uart_setmode(kw, st) ==
  /\ pc = "idle"
  /\ hndl # 0
  /\ method' = "setmode"
  /\ args' = kw
  /\ SetmodeBody(kw, st)
  /\ rv' = "none"
  /\ rd0' = rx_rd
  /\ pc' = "rbsetmode_done"
  /\ UNCHANGED << ring, rx_rd, fifo, retry, size, buf, cnt, ba, len, idx, rx_wr,
                  tx, want, mark, chunks, hndl, rest >>

----------------------------------------------------------------------------
(* c_uart_new                                                              *)

\* `unit_num' before the switch: 1, the positional integer, the keyword.
NewUnitNum(a) ==
  IF a.unit # << >> THEN a.unit[1].i
  ELSE IF a.pos # << >> /\ a.pos[1].tt = "INTEGER" THEN a.pos[1].i
  ELSE 1

\* A plausible slip: every index of the table let through.
NewUnitValid_index(a) ==
  /\ a.unit # << >> => a.unit[1].tt = "INTEGER"
  /\ NewUnitNum(a) \in 0 .. 6

\* The keyword is an integer if given, and the switch lets unit_num through.
NewUnitValid(a) ==
  /\ a.unit # << >> => a.unit[1].tt = "INTEGER"
  /\ NewUnitNum(a) \in { 1, 2, 6 }

\* The program creates one instance of class UART; a call that fails may be
\* repeated.
c_uart_new(a, st) ==
  /\ pc = "idle"
  /\ hndl = 0
  /\ method' = "new"
  /\ args' = a
  /\ IF NewUnitValid(a)
       THEN /\ hndl' = TBL_UART_HANDLE[NewUnitNum(a)]
            /\ rv' = "instance"
            /\ SetmodeBody(a, st)
       ELSE /\ raised' = "ArgumentError"
            /\ rv' = "none"
            /\ UNCHANGED << hndl, cfg, hal_status, ret >>
  /\ rd0' = rx_rd
  /\ pc' = "rbnew_done"
  /\ UNCHANGED << ring, rest, rx_rd, fifo, retry, size, buf, cnt, ba, len, idx, rx_wr,
                  tx, want, mark, chunks >>

----------------------------------------------------------------------------
(* c_uart_send_break and c_uart_write                                      *)

c_uart_send_break ==
  /\ pc = "idle"
  /\ hndl # 0
  /\ method' = "send_break"
  /\ raised' = "NotImplementedError"
  /\ pc' = "rbbreak_done"
  /\ UNCHANGED << ring, cfg, rx_rd, fifo, retry, size, buf, cnt, ba, len, idx,
                  rx_wr, ret, tx, hal_status, want, mark, chunks, rd0, hndl, rest,
                  rv, args >>

WriteArgs == { [tt |-> "STRING", s |-> s] : s \in TxStrings }
               \cup { [tt |-> "INTEGER", s |-> << >>] }

\* c_uart_write: `int n = uart_write( ... ); SET_INT_RETURN(n);'
c_uart_write(a, st) ==
  /\ pc = "idle"
  /\ hndl # 0
  /\ method' = "write"
  /\ args' = a
  /\ IF a.tt # "STRING"
       THEN /\ raised' = "ArgumentError"
            /\ UNCHANGED << size, tx, hal_status, ret, rv >>
       ELSE /\ size' = Len(a.s)
            /\ tx' = tx \o a.s
            /\ hal_status' = st
            /\ ret' = Len(a.s)
            /\ rv' = "integer"
            /\ UNCHANGED raised
  /\ rd0' = rx_rd
  /\ pc' = "rbwrite_done"
  /\ UNCHANGED << ring, cfg, rx_rd, fifo, retry, buf, cnt, ba, len, idx, rx_wr,
                  want, mark, chunks, hndl, rest >>

Ruby ==
  \/ \E a \in NewArgs, st \in { "HAL_OK", "HAL_ERROR" } : c_uart_new(a, st)
  \/ \E kw \in KwArgs, st \in { "HAL_OK", "HAL_ERROR" } : c_uart_setmode(kw, st)
  \/ c_uart_send_break
  \/ \E a \in WriteArgs, st \in HalStatus : c_uart_write(a, st)
  \/ RbReturn

NextRuby == Engine \/ uart_init \/ Ruby

SpecRuby == InitUnit /\ [][NextRuby]_vars

----------------------------------------------------------------------------
(* check_boot_mode, called by start_mrubyc right after uart_init: for up   *)
(* to MAX_WAIT_CYCLE rounds, 10 ms apart, it asks whether a line is        *)
(* pending on the console, whose unit is the one modelled here.            *)

MAX_WAIT_CYCLE == 256

\* start_mrubyc: `switch( check_boot_mode() )'; `int ret = 0;' and `i = 0'.
CallBoot ==
  /\ pc = "idle"
  /\ boot_i' = 0
  /\ ret' = 0
  /\ rd0' = rx_rd
  /\ pc' = "boot_loop"
  /\ UNCHANGED << ring, cfg, ruby, other, rx_rd, fifo, retry, size, buf, cnt, ba, len,
                  idx, rx_wr, tx, hal_status, want, mark, chunks >>

\* `i < MAX_WAIT_CYCLE', the LED, and the entry of uart_can_read_line, which
\* reads NDTR; when the rounds are used up, `return ret;'.
BootPoll ==
  /\ pc = "boot_loop"
  /\ IF boot_i < MAX_WAIT_CYCLE
       THEN /\ idx' = U16(rx_rd)
            /\ rx_wr' = U16(uart_get_wr_pos)
            /\ mark' = Len(fifo)
            /\ pc' = "boot_scan"
       ELSE /\ pc' = "boot_done"
            /\ UNCHANGED << idx, rx_wr, mark >>
  /\ UNCHANGED << ring, cfg, ruby, other, rx_rd, fifo, retry, size, buf, cnt, ba, len,
                  ret, tx, hal_status, want, chunks, rd0, boot_i >>

\* A plausible slip: any pending byte taken for a line.
BootScan_anybyte ==
  /\ pc = "boot_scan"
  /\ IF uart_is_readable(rx_rd, rx_wr) # 0
       THEN pc' = "boot_clear" /\ UNCHANGED boot_i
       ELSE pc' = "boot_loop" /\ boot_i' = boot_i + 1
  /\ UNCHANGED << ring, cfg, ruby, other, rx_rd, fifo, retry, size, buf, cnt, ba, len,
                  idx, rx_wr, ret, tx, hal_status, want, mark, chunks, rd0 >>

\* The scan of uart_can_read_line and the `if'; without a line, HAL_Delay
\* and `i++'.
BootScan ==
  /\ pc = "boot_scan"
  /\ IF ScanLine(rx_rd, idx, rx_wr) # 0
       THEN pc' = "boot_clear" /\ UNCHANGED boot_i
       ELSE pc' = "boot_loop" /\ boot_i' = boot_i + 1
  /\ UNCHANGED << ring, cfg, ruby, other, rx_rd, fifo, retry, size, buf, cnt, ba, len,
                  idx, rx_wr, ret, tx, hal_status, want, mark, chunks, rd0 >>

\* uart_clear_rx_buffer: the read of the write position.
BootClear ==
  /\ pc = "boot_clear"
  /\ rx_wr' = uart_get_wr_pos
  /\ mark' = Len(fifo)
  /\ pc' = "boot_clear_store"
  /\ UNCHANGED << ring, cfg, ruby, other, rx_rd, fifo, retry, size, buf, cnt, ba, len,
                  idx, ret, tx, hal_status, want, chunks, rd0, boot_i >>

\* The store to rx_rd, `ret = 1; break;' and `return ret;'.
BootClearStore ==
  /\ pc = "boot_clear_store"
  /\ rx_rd' = ClearedRd(rx_wr)
  /\ fifo' = SubSeq(fifo, mark + 1, Len(fifo))
  /\ ret' = 1
  /\ pc' = "boot_done"
  /\ UNCHANGED << ring, cfg, ruby, other, retry, size, buf, cnt, ba, len, idx, rx_wr,
                  tx, hal_status, want, mark, chunks, rd0, boot_i >>

check_boot_mode == BootPoll \/ BootScan \/ BootClear \/ BootClearStore

NextBoot == Engine \/ uart_init \/ CallBoot \/ check_boot_mode

SpecBoot == Init /\ [][NextBoot]_vars

\* The processor keeps executing check_boot_mode (HAL_Delay returns).
FairBoot == SpecBoot /\ WF_vars(check_boot_mode)

----------------------------------------------------------------------------
(* spi_setmode( hspi, freq, mode, msb_lsb )                                *)

SPI_BASEFREQ      == 42000000
NUM_TBL_PRESCALER == 8
DocMinFreq        == 164000     \* `frequency: 164_000..21_000_000'
DocMaxFreq        == 21000000
SpiWindow         == 4          \* frequencies modelled above DocMinFreq

\* TBL_PRESCALER[], each entry as the divisor it selects.
TBL_PRESCALER == << 2, 4, 8, 16, 32, 64, 128, 256 >>

\* What a read behind the end of TBL_PRESCALER may yield: any word, of which
\* one outside the table and the table's first and last are kept.
WordBehindTable == { 0, TBL_PRESCALER[1], TBL_PRESCALER[NUM_TBL_PRESCALER] }

\* `for( n = 0; n < NUM_TBL_PRESCALER; n++, prescaler *= 2 )' with its
\* `if( freq >= fcalc ) break;': the value of n behind the loop.
RECURSIVE PrescalerLoop(_, _, _)
PrescalerLoop(freq, n, prescaler) ==
  IF ~ (n < NUM_TBL_PRESCALER) THEN n
  ELSE IF freq >= SPI_BASEFREQ \div prescaler THEN n
  ELSE PrescalerLoop(freq, n + 1, prescaler * 2)

SpiFreqs ==
  { 0 - 1, 0, SPI_BASEFREQ }
    \cup (DocMinFreq - 1 .. DocMinFreq + SpiWindow)
    \cup (DocMaxFreq .. DocMaxFreq + 1)
    \cup { SPI_BASEFREQ \div TBL_PRESCALER[k] + d :
             k \in 1 .. NUM_TBL_PRESCALER, d \in { 0 - 1, 0 } }
SpiModes == (0 - 1) .. 3
SpiFirst == (0 - 1) .. 1

\* st is what HAL_SPI_Init returns.
spi_setmode(freq, mode, msb_lsb, st) ==
  /\ spi_freq' = freq
  /\ IF freq > 0
       THEN LET n == PrescalerLoop(freq, 0, 2)
            IN  /\ spi_n' = n
                /\ IF n < NUM_TBL_PRESCALER
                     THEN BaudRatePrescaler' = TBL_PRESCALER[n + 1]
                     ELSE \E w \in WordBehindTable : BaudRatePrescaler' = w
       ELSE UNCHANGED << spi_n, BaudRatePrescaler >>
  /\ CLKPolarity' = CASE mode \in { 0, 1 } -> "LOW"
                      [] mode \in { 2, 3 } -> "HIGH"
                      [] OTHER -> CLKPolarity
  /\ CLKPhase' = CASE mode \in { 0, 2 } -> "1EDGE"
                   [] mode \in { 1, 3 } -> "2EDGE"
                   [] OTHER -> CLKPhase
  /\ FirstBit' = CASE msb_lsb = 0 -> "MSB"
                   [] msb_lsb = 1 -> "LSB"
                   [] OTHER -> FirstBit
  /\ spi_ret' = IF st # "HAL_OK" THEN 0 - 1 ELSE 0
  /\ UNCHANGED << ring, cfg, ruby, rx_rd, fifo, retry, pc, size, buf, cnt, ba,
                  len, idx, rx_wr, ret, tx, hal_status, want, mark, chunks,
                  rd0, boot_i, gpio, multi >>

NextSpi ==
  \E freq \in SpiFreqs, mode \in SpiModes, msb_lsb \in SpiFirst,
     st \in { "HAL_OK", "HAL_ERROR" } : spi_setmode(freq, mode, msb_lsb, st)

SpecSpi == Init /\ [][NextSpi]_vars

----------------------------------------------------------------------------
(* gpio_set_pin_handle( pin, val )                                         *)

NullPort == "0"
TBL_PORT_TO_STM32GPIO ==
  << NullPort, "GPIOA", "GPIOB", "GPIOC", "GPIOD", "GPIOE", NullPort, NullPort,
     "GPIOH" >>

\* TBL_ARDUINO_DIGITAL_PIN_TO_PIN[], port in the high and num in the low
\* four bits: 0x03, 0x02, 0x0A, 0x13, 0x15, 0x14, 0x1A, 0x08, ...
TBL_ARDUINO_DIGITAL_PIN_TO_PIN ==
  << 3, 2, 10, 19, 21, 20, 26, 8, 9, 39, 22, 7, 6, 5, 25, 24 >>

\* The character code of a one-character string.
Ord(c) ==
  CASE c = "-" -> 45
    [] c = "0" -> 48 [] c = "1" -> 49 [] c = "2" -> 50 [] c = "5" -> 53
    [] c = "6" -> 54
    [] c = "@" -> 64 [] c = "A" -> 65 [] c = "B" -> 66 [] c = "E" -> 69
    [] c = "F" -> 70 [] c = "G" -> 71 [] c = "H" -> 72 [] c = "P" -> 80
    [] c = "Q" -> 81 [] c = "Z" -> 90 [] c = "[" -> 91 [] c = "a" -> 97

\* s[k] of a C string: the terminating NUL stands behind the last character.
CharAt(s, k) == IF k < Len(s) THEN Ord(s[k + 1]) ELSE NUL

\* mrbc_atoi( s+k, 10 ): an optional sign, then decimal digits up to the
\* first other character.
RECURSIVE AtoiDigits(_, _, _)
AtoiDigits(s, k, acc) ==
  IF CharAt(s, k) >= Ord("0") /\ CharAt(s, k) <= Ord("0") + 9
    THEN AtoiDigits(s, k + 1, acc * 10 + (CharAt(s, k) - Ord("0")))
    ELSE acc
mrbc_atoi(s, k) ==
  IF CharAt(s, k) = Ord("-") THEN 0 - AtoiDigits(s, k + 1, 0)
  ELSE AtoiDigits(s, k, 0)

\* The store to a uint8_t field.
U8(x) == x % 256

PinLetters == { "@", "A", "B", "E", "F", "G", "H", "Z", "[" }
PinNumbers ==
  { << >>, << "0" >>, << "1" >>, << "5" >>, << "1", "5" >>, << "1", "6" >>,
    << "2", "5", "5" >>, << "2", "5", "6" >>, << "2", "6", "5" >>,
    << "-", "1" >>, << "1", "a" >>, << "0", "1", "5" >> }
PinStrings ==
  { << "P", c >> \o d : c \in PinLetters, d \in PinNumbers }
    \cup { << >>, << "P" >>, << "Q", "A", "1" >>, << "a", "A", "1" >> }
PinValues ==
  { [tt |-> "MRBC_TT_STRING", s |-> s] : s \in PinStrings }
    \cup { [tt |-> "MRBC_TT_INTEGER", i |-> n] : n \in (0 - 1) .. 16 }
    \cup { [tt |-> "MRBC_TT_NIL"] }

\* What gpio_set_pin_handle leaves in *pin and returns, as <<port, num, ret>>.
PinHandle(val) ==
  LET ERROR_RETURN == << 0, 0, 0 - 1 >>
  IN  IF val.tt = "MRBC_TT_STRING" THEN
        IF /\ CharAt(val.s, 0) = Ord("P")
           /\ Ord("A") <= CharAt(val.s, 1) /\ CharAt(val.s, 1) <= Ord("Z")
          THEN LET port == U8(CharAt(val.s, 1) - Ord("A") + 1)
                   num  == U8(mrbc_atoi(val.s, 2))
               IN  IF num > 15 THEN ERROR_RETURN ELSE << port, num, 0 >>
          ELSE ERROR_RETURN
      ELSE IF val.tt = "MRBC_TT_INTEGER" THEN
        IF val.i >= 0 /\ val.i <= 15
          THEN LET n == TBL_ARDUINO_DIGITAL_PIN_TO_PIN[val.i + 1]
               IN  << ((n \div 16) % 4) + 1, n % 16, 0 >>
          ELSE ERROR_RETURN
      ELSE ERROR_RETURN

gpio_set_pin_handle(val) ==
  /\ gpio_val' = << val >>
  /\ pin' = [port |-> PinHandle(val)[1], num |-> PinHandle(val)[2]]
  /\ gpio_ret' = PinHandle(val)[3]
  /\ UNCHANGED << ring, cfg, ruby, rx_rd, fifo, retry, pc, size, buf, cnt, ba,
                  len, idx, rx_wr, ret, tx, hal_status, want, mark, chunks,
                  rd0, boot_i, spi, multi >>

NextGpio == \E val \in PinValues : gpio_set_pin_handle(val)

SpecGpio == Init /\ [][NextGpio]_vars

----------------------------------------------------------------------------
(* Several units and several instances of class UART.  A method of class   *)
(* UART runs to its end before another one starts; a uart_read that waits  *)
(* for bytes is the one call during which the engines go on storing.       *)

\* The variables of the single unit modelled above.
single == << ring, cfg, ruby, rx_rd, fifo, retry, pc, size, buf, cnt, ba, len,
             idx, rx_wr, ret, tx, hal_status, want, mark, chunks, rd0, boot_i,
             spi, gpio >>

\* uart_get_wr_pos( h )
WrPosOf(h) == rxfifo_size - h.NDTR

\* uart_can_read_line( h ): the scan from i to the write position.
RECURSIVE ScanLineOf(_, _, _, _)
ScanLineOf(h, rd, i, wr) ==
  IF i = wr THEN 0
  ELSE IF h.rxfifo[i].b = h.delimiter THEN LineLength(rd, U16(i + 1))
  ELSE ScanLineOf(h, rd, WrapIdx(U16(i + 1)), wr)

\* The k slots `h->rxfifo[h->rx_rd++]' yields from rd on, and rx_rd after
\* them.
RECURSIVE CopyOut(_, _, _)
CopyOut(h, rd, k) ==
  IF k = 0 THEN << >>
  ELSE << h.rxfifo[rd] >> \o CopyOut(h, NextRd(rd), k - 1)
RECURSIVE AdvanceRd(_, _)
AdvanceRd(rd, k) == IF k = 0 THEN rd ELSE AdvanceRd(NextRd(rd), k - 1)

\* The k-th byte a line delivers: 'A' and '\n' in turn.
Feed(k) == IF k % 2 = 0 THEN LF ELSE 65

Sum3(f) == f[1] + f[2] + f[6]

\* The engine of unit u stores one byte, as EngineStore does.
MultiStore(u) ==
  /\ Sum3(delivered) < MaxSent
  /\ uarts[u].NDTR > 0
  /\ (WrPosOf(uarts[u]) + 1) % rxfifo_size # uarts[u].rx_rd
  /\ uarts' = [uarts EXCEPT
       ![u].rxfifo[WrPosOf(uarts[u])] =
          [b |-> Feed(delivered[u] + 1), id |-> << u, delivered[u] + 1 >>],
       ![u].NDTR = IF uarts[u].NDTR = 1 THEN rxfifo_size
                   ELSE uarts[u].NDTR - 1]
  /\ delivered' = [delivered EXCEPT ![u] = delivered[u] + 1]
  /\ UNCHANGED << instances, reading, created, returned, single >>

\* c_uart_new: UART.new(unit_num, baudrate: baud); baud < 0 stands for a
\* call without keywords.
MultiNew(a, unit_num, baud) ==
  /\ reading = NoRead
  /\ instances[a] = 0
  /\ unit_num \in { 1, 2, 6 }
  /\ instances' = [instances EXCEPT ![a] = TBL_UART_HANDLE[unit_num]]
  /\ created' = [created EXCEPT ![a] = unit_num]
  /\ uarts' = IF baud >= 0
                THEN [uarts EXCEPT ![TBL_UART_HANDLE[unit_num]].BaudRate = baud]
                ELSE uarts
  /\ UNCHANGED << reading, returned, delivered, single >>

\* c_uart_setmode: a.setmode(baudrate: baud)
MultiSetmode(a, baud) ==
  /\ reading = NoRead
  /\ instances[a] # 0
  /\ uarts' = [uarts EXCEPT ![instances[a]].BaudRate = baud]
  /\ UNCHANGED << instances, reading, created, returned, delivered, single >>

\* c_uart_clear_rx_buffer
MultiClear(a) ==
  /\ reading = NoRead
  /\ instances[a] # 0
  /\ uarts' = [uarts EXCEPT
       ![instances[a]].rx_rd = ClearedRd(WrPosOf(uarts[instances[a]]))]
  /\ UNCHANGED << instances, reading, created, returned, delivered, single >>

\* c_uart_gets with a line pending (with none it polls and changes nothing):
\* uart_read of the len that uart_can_read_line returned.
MultiGets(a) ==
  /\ reading = NoRead
  /\ instances[a] # 0
  /\ LET h == uarts[instances[a]]
         l == ScanLineOf(h, h.rx_rd, h.rx_rd, WrPosOf(h))
     IN  /\ l > 0
         /\ returned' = [returned EXCEPT
              ![a] = returned[a] \o CopyOut(h, h.rx_rd, l)]
         /\ uarts' = [uarts EXCEPT
              ![instances[a]].rx_rd = AdvanceRd(h.rx_rd, l)]
  /\ UNCHANGED << instances, reading, created, delivered, single >>

\* c_uart_read: a.read(n) enters uart_read.
MultiCallRead(a, n) ==
  /\ reading = NoRead
  /\ instances[a] # 0
  /\ reading' = [inst |-> a, cnt |-> n]
  /\ UNCHANGED << uarts, instances, created, returned, delivered, single >>

\* One poll of the uart_read under way that finds bytes, and its copy.
MultiReadPoll ==
  /\ reading # NoRead
  /\ LET a     == reading.inst
         h     == uarts[instances[a]]
         avail == uart_bytes_available(h.rx_rd, WrPosOf(h))
         k     == IF avail < reading.cnt THEN avail ELSE reading.cnt
     IN  /\ avail > 0
         /\ returned' = [returned EXCEPT
              ![a] = returned[a] \o CopyOut(h, h.rx_rd, k)]
         /\ uarts' = [uarts EXCEPT
              ![instances[a]].rx_rd = AdvanceRd(h.rx_rd, k)]
         /\ reading' = IF reading.cnt - k = 0 THEN NoRead
                       ELSE [reading EXCEPT !.cnt = reading.cnt - k]
  /\ UNCHANGED << instances, created, delivered, single >>

MultiBauds == { 0 - 1, 9600 }

NextMulti ==
  \/ \E u \in UartUnits : MultiStore(u)
  \/ \E a \in Insts, unit_num \in UartUnits, baud \in MultiBauds :
       MultiNew(a, unit_num, baud)
  \/ \E a \in Insts : MultiSetmode(a, 9600)
  \/ \E a \in Insts : MultiClear(a)
  \/ \E a \in Insts : MultiGets(a)
  \/ \E a \in Insts, n \in 1 .. MaxSent : MultiCallRead(a, n)
  \/ MultiReadPoll

InitAll ==
  /\ InitHandle({ RingSize })
  /\ InitConfig
  /\ InitRuby

SpecMulti == InitAll /\ [][NextMulti]_vars

----------------------------------------------------------------------------
(* Reference notions the properties are stated with.                       *)

Range(s) == { s[i] : i \in 1 .. Len(s) }

\* The n bytes of the ring in ring order, starting at the read position.
Window(n) == [i \in 1 .. n |-> rxfifo[(rx_rd + i - 1) % rxfifo_size]]

\* The length of the first line among the bytes from rd up to wr (0: none).
FirstLine(rd, wr) ==
  LET n    == (wr - rd) % rxfifo_size
      hits == { k \in 0 .. n - 1 : rxfifo[(rd + k) % rxfifo_size] = delimiter }
  IN  IF hits = {} THEN 0
      ELSE (CHOOSE k \in hits : \A j \in hits : k <= j) + 1

Positions == 0 .. rxfifo_size - 1

----------------------------------------------------------------------------
----------------------------------------------------------------------------
\* C2: the bytes a uart_read has copied are, at every moment of the call, the
\* bytes the engine delivered, in delivery order, none twice and none left
\* out; what the call returns is size of them, and what is still pending
\* continues the delivered stream, so that successive reads return it in order.
ReadIsFifo ==
  /\ pc \in { "read_loop", "read_copy", "read_done" } =>
       /\ buf = want
       /\ NoByte \notin Range(want)
       /\ Len(buf) + cnt + (IF pc = "read_copy" THEN ba ELSE 0) = size
  /\ pc = "read_done" => Len(buf) = size
  /\ pc # "boot" => Window(Len(fifo)) = fifo

\* A read of MaxRead bytes has returned after as many polls that each found
\* the one byte the engine had stored since the poll before.
ReadByteByByte ==
  /\ pc = "read_done"
  /\ size = MaxRead
  /\ chunks = MaxRead
  /\ fifo = << >>
  /\ LF \in Range(buf) /\ 65 \in Range(buf)

\* C3: uart_read(size) with size > 0 returns only with exactly size bytes
\* copied, each one delivered by the engine, and returns size; while the
\* engine keeps delivering, a read under way does return.
ReadExact ==
  /\ [](pc = "read_done" =>
          /\ ret = size
          /\ Len(buf) = size
          /\ Len(want) = size
          /\ NoByte \notin Range(want))
  /\ [][(pc \in { "read_loop", "read_copy" } /\ size > 0 /\ Len(want) < size)
          => (pc' # "read_done")]_vars
  /\ (pc = "read_loop" ~> pc = "read_done")

\* A read of more than one byte has returned after several polls.
ReadReturned ==
  /\ pc = "read_done"
  /\ size > 1
  /\ ret = size
  /\ chunks > 1

----------------------------------------------------------------------------
\* C4: for every read position rd and write position wr of the ring,
\* uart_bytes_available is (wr - rd) mod capacity, a count from 0 to
\* capacity-1, also when wr < rd; and that is what a call returns for the
\* write position it has read.
AvailableIsModulo ==
  /\ \A rd \in Positions, wr \in Positions :
       /\ uart_bytes_available(rd, wr) = (wr - rd) % rxfifo_size
       /\ uart_bytes_available(rd, wr) \in 0 .. rxfifo_size - 1
  /\ pc = "ba_done" =>
       /\ ret = (rx_wr - rx_rd) % rxfifo_size
       /\ ret \in 0 .. rxfifo_size - 1

\* A call has returned the largest count for a window that wraps.
AvailableWrapped ==
  /\ pc = "ba_done"
  /\ rx_wr < rx_rd
  /\ ret = rxfifo_size - 1
  /\ rxfifo_size = RingSize

\* C5: uart_can_read_line returns k+1 for the first pending byte, at offset k
\* from the read position in ring order, that equals the delimiter, and 0
\* when no byte from rd up to wr does (so 0 when rd = wr): for every rd and
\* wr over the ring as it stands, and for the write position a call has read.
ScanFindsFirstLine ==
  /\ pc # "boot" =>
       \A rd \in Positions, wr \in Positions :
          uart_can_read_line(rd, wr) = FirstLine(rd, wr)
  /\ pc = "crl_done" => ret = FirstLine(rx_rd, rx_wr)
  /\ pc = "crl_done" /\ rx_rd = rx_wr => ret = 0

\* A call has found the delimiter in the last slot of the array, as the last
\* byte before a window that goes on past the end of the array.
ScanAtPhysicalEnd ==
  /\ pc = "crl_done"
  /\ rxfifo_size = RingSize
  /\ rx_wr < rx_rd /\ rx_wr > 0
  /\ ret > 1
  /\ rx_rd + ret = rxfifo_size

\* A call has found the delimiter beyond the end of the array.
ScanWrapped ==
  /\ pc = "crl_done"
  /\ rxfifo_size = RingSize
  /\ rx_rd + ret > rxfifo_size + 1

----------------------------------------------------------------------------
\* C6: with a line of length len pending, uart_gets(size) fails with -1
\* exactly when len >= size (so also when size = len); the failed call has
\* copied nothing and has left the read position and the pending bytes as
\* they were; the line stays pending, and the uart_gets that then succeeds
\* returns that same line.
GetsTooSmallKeepsLine ==
  /\ pc = "gets_done" =>
       /\ len > 0
       /\ (ret = 0 - 1) <=> (len >= size)
  /\ pc = "gets_done" /\ ret >= 0 =>
       /\ Len(want) = len
       /\ want[len] = delimiter
       /\ \A i \in 1 .. len - 1 : want[i] # delimiter
  /\ pc = "gets_done" /\ ret = 0 - 1 =>
       /\ len = FirstLine(rx_rd, rx_wr)
       /\ rx_rd = rd0
       /\ buf = << >> /\ want = << >>
       /\ Len(retry) = len
       /\ retry[len] = delimiter
  /\ retry # << >> /\ pc \in { "idle", "gets_loop", "gets_scan", "gets_done" }
       /\ ~ (pc = "gets_done" /\ ret >= 0) =>
       /\ Pending(Len(retry)) = retry
       /\ Window(Len(retry)) = retry
  /\ retry # << >> /\ pc = "gets_done" /\ ret >= 0 =>
       /\ ret = Len(retry)
       /\ buf = retry \o << NUL >>

\* A uart_gets has returned the line an earlier one had refused.
GetsRetried ==
  /\ pc = "gets_done"
  /\ ret > 1
  /\ retry # << >>
  /\ rd0 + ret > rxfifo_size

\* A uart_gets has failed with a destination of exactly the line's length.
GetsRefusedExactFit ==
  /\ pc = "gets_done"
  /\ ret = 0 - 1
  /\ len = size
  /\ len > 1

\* C7: a uart_gets that finds a line of length len < size copies exactly the
\* len bytes up to and including the first delimiter, stores a 0 after them,
\* returns len and leaves the read position at (rd + len) mod capacity; the
\* bytes behind the delimiter stay pending, in order.
GetsTakesOneLine ==
  pc = "gets_done" /\ ret >= 0 =>
    /\ ret = len
    /\ len > 0 /\ len < size
    /\ Len(buf) = len + 1
    /\ buf[len + 1] = NUL
    /\ SubSeq(buf, 1, len) = want
    /\ NoByte \notin Range(want)
    /\ buf[len] = delimiter
    /\ \A i \in 1 .. len - 1 : buf[i] # delimiter
    /\ rx_rd = (rd0 + len) % rxfifo_size
    /\ Len(fifo) >= mark - len
    /\ Window(Len(fifo)) = fifo
    /\ uart_can_read_line(rx_rd, U16(uart_get_wr_pos)) =
         FirstLine(rx_rd, uart_get_wr_pos)

\* A uart_gets has returned a line and has left behind bytes that hold no
\* delimiter: uart_can_read_line is 0 for them.
GetsLeavesPartialLine ==
  /\ pc = "gets_done"
  /\ ret > 1
  /\ Len(fifo) > 1
  /\ delimiter \notin Range(fifo)
  /\ uart_can_read_line(rx_rd, U16(uart_get_wr_pos)) = 0

\* The same on the bytes "AB\nCD": the first uart_gets with room returns the
\* three bytes "AB\n" and a 0, and leaves "CD", for which uart_can_read_line
\* is 0.
GetsExample ==
  /\ pc = "gets_done" /\ ret >= 0 /\ want \o fifo = Example =>
       /\ ret = 3
       /\ buf = << 65, 66, LF, NUL >>
       /\ fifo = << 67, 68 >>
       /\ uart_can_read_line(rx_rd, U16(uart_get_wr_pos)) = 0
  /\ pc = "crl_done" /\ fifo = Example => ret = 3
  /\ pc = "crl_done" /\ fifo = << 67, 68 >> => ret = 0

\* "AB\n" has been returned and uart_can_read_line has answered 0 for "CD".
GetsExampleDone ==
  /\ pc = "crl_done"
  /\ fifo = << 67, 68 >>
  /\ ret = 0
  /\ rx_rd < 2

----------------------------------------------------------------------------
\* C8 as stated: when uart_clear_rx_buffer returns, uart_bytes_available is
\* 0, whatever the engine did during the call.
ClearLeavesNothing ==
  [][(pc = "clear_store" /\ pc' = "clear_done")
       => (uart_bytes_available(rx_rd', U16(rxfifo_size' - NDTR')) = 0)]_vars

\* C8, amended: uart_clear_rx_buffer reads the write position once and sets
\* the read position to exactly that value, which drops every byte that was
\* pending at that read; the bytes the engine has stored since that read stay
\* pending, and uart_bytes_available counts exactly those (0 when there are
\* none).
ClearDropsToSnapshot ==
  /\ [](pc = "clear_done" =>
          /\ rx_rd = rx_wr
          /\ uart_bytes_available(rx_rd, U16(uart_get_wr_pos)) = Len(fifo)
          /\ Window(Len(fifo)) = fifo)
  /\ [][(pc = "clear_store" /\ pc' = "clear_done") =>
          /\ rx_rd' = rx_wr
          /\ Len(fifo') = Len(fifo) - mark
          /\ uart_bytes_available(rx_rd', U16(rxfifo_size' - NDTR'))
               = Len(fifo) - mark]_vars

\* A clear has dropped pending bytes while the engine stored another one
\* between the read of the write position and the store to rx_rd.
ClearRacedByEngine ==
  /\ pc = "clear_store"
  /\ mark > 0
  /\ Len(fifo) > mark

\* A clear has returned: bytes were dropped, and a byte stored since is pending.
ClearDoneWithLateByte ==
  /\ pc = "clear_done"
  /\ mark > 0
  /\ rd0 # rx_rd
  /\ Len(fifo) > 0

----------------------------------------------------------------------------
\* C9: whatever the capacity and wherever the read position rd0 stood when
\* uart_read(N) was entered, the call returns the N bytes in the order the
\* engine wrote them from rd0 on, wrapping at the capacity, and leaves the
\* read position at (rd0 + N) mod capacity, which is the write position when
\* nothing more has arrived.
ReadWrapsAround ==
  /\ pc \in { "read_loop", "read_copy", "read_done" } =>
       /\ rx_rd = (rd0 + Len(buf)) % rxfifo_size
       /\ buf = want
  /\ pc = "read_done" =>
       /\ Len(buf) = size
       /\ rx_rd = (rd0 + size) % rxfifo_size
       /\ fifo = << >> => rx_rd = uart_get_wr_pos

\* capacity-1 bytes, written from the last slot of the array on, have been
\* read back in one go.
ReadFromLastSlot ==
  /\ pc = "read_done"
  /\ rxfifo_size = RingSize
  /\ rd0 = rxfifo_size - 1
  /\ size = rxfifo_size - 1
  /\ chunks = 1
  /\ fifo = << >>
  /\ LF \in Range(buf) /\ 65 \in Range(buf)

----------------------------------------------------------------------------
\* C10: each cursor has one writer.  Once the unit is initialised, a step
\* that stores into rxfifo or moves the write position is a step of the
\* engine: it appends one delivered byte and leaves the read position and
\* the whole state of the application alone.  A step that moves the read
\* position is a copy step of uart_read or uart_gets or the store of
\* uart_clear_rx_buffer, and leaves rxfifo and the write position alone.
\* No step of uart_bytes_available, uart_is_readable, uart_can_read_line,
\* uart_setmode, uart_write or puts does either.
OneWriterPerCursor ==
  /\ [][(pc # "boot" /\ (rxfifo' # rxfifo \/ NDTR' # NDTR)) =>
          /\ Len(fifo') = Len(fifo) + 1
          /\ UNCHANGED << rx_rd, pc, size, buf, cnt, ba, len, idx, rx_wr, ret,
                          tx, hal_status, want, mark, chunks, rd0, retry,
                          cfg, rxfifo_size, delimiter >>]_vars
  /\ [][(rx_rd' # rx_rd) =>
          /\ pc \in { "read_copy", "gets_copy", "clear_store" }
          /\ UNCHANGED << rxfifo, NDTR, rxfifo_size, delimiter >>]_vars
  /\ [][(pc' \in { "ba_done", "readable_done", "crl_scan", "crl_done",
                   "setmode_done", "write_done", "puts_done" } /\ pc' # pc) =>
          UNCHANGED << rxfifo, NDTR, rx_rd >>]_vars

\* The mode has been changed and a string sent while received bytes were
\* pending behind a read position that had moved.
ModeSetWhilePending ==
  /\ pc = "setmode_done"
  /\ ret = 0
  /\ Parity = "EVEN" /\ StopBits = "2" /\ BaudRate = 9600
  /\ fifo # << >>
  /\ rx_rd > 0

----------------------------------------------------------------------------
\* The bytes of s up to and including the first delimiter are a line.
IsLine(s) ==
  /\ s # << >>
  /\ s[Len(s)] = delimiter
  /\ \A i \in 1 .. Len(s) - 1 : s[i] # delimiter

\* C11: uart_gets and the method gets leave their wait loop at the first
\* poll that finds a delimiter among the bytes pending at that poll, and at
\* no poll that finds none; so neither returns, with a line or with -1, while
\* no delimiter is pending.  Every line returned ends with the delimiter and
\* holds no earlier one.  Once a delimiter is pending, the call returns.
GetsWaitsForLine ==
  /\ [][(pc \in { "gets_scan", "rbgets_scan" } /\ pc' # pc) =>
          IF delimiter \in Range(Pending(mark))
            THEN pc' \in { "gets_copy", "gets_done", "read_loop",
                           "rbgets_done" }
            ELSE pc' \in { "gets_loop", "rbgets_loop" }]_vars
  /\ [][(pc' \in { "gets_done", "rbgets_done" } /\ pc' # pc) =>
          delimiter \in Range(want \o fifo)]_vars
  /\ [](pc = "gets_done" /\ ret >= 0 =>
          IsLine(want) /\ SubSeq(buf, 1, Len(buf) - 1) = want)
  /\ [](pc = "rbgets_done" /\ rv = "string" =>
          IsLine(want) /\ SubSeq(buf, 1, Len(buf) - 1) = want)
  /\ ((pc \in { "gets_loop", "gets_scan" } /\ delimiter \in Range(fifo))
        ~> (pc = "gets_done"))
  /\ ((pc \in { "rbgets_loop", "rbgets_scan" } /\ delimiter \in Range(fifo))
        ~> (pc = "rbgets_done"))

\* A uart_gets has returned a line of several bytes after a poll that had
\* found bytes pending but no delimiter among them.
GetsReturnedAfterWait ==
  /\ pc = "gets_done"
  /\ ret > 1
  /\ chunks = 1
  /\ rxfifo_size = RingSize

\* The method gets has returned a line of several bytes.
RbGetsReturnedAfterWait ==
  /\ pc = "rbgets_done"
  /\ rv = "string"
  /\ Len(buf) > 2
  /\ method = "gets"

----------------------------------------------------------------------------
(* The calls of new and setmode, as seen from the Ruby program.            *)

\* A step in which new (with a unit it accepts) or setmode runs on the
\* keywords args'.
ModeCall ==
  /\ pc = "idle"
  /\ \/ pc' = "rbsetmode_done"
     \/ pc' = "rbnew_done" /\ hndl' # 0

\* The baud rate the caller has given (baud before baudrate).
BaudGiven(a) == a.baud # << >> \/ a.baudrate # << >>

\* C12 as stated: a call of setmode or new that gives a baud rate below
\* 2400, 0 included, raises ArgumentError and leaves the baud rate of the
\* hardware as it was.
LowBaudRejected ==
  [][(ModeCall /\ args'.other = {} /\ BaudGiven(args')
        /\ KwBaudValue(args') >= 0 /\ KwBaudValue(args') < 2400) =>
          /\ raised' = "ArgumentError"
          /\ BaudRate' = BaudRate]_vars

\* setmode has returned normally after baud: 0, and the baud rate is 0.
BaudZeroApplied ==
  /\ pc = "rbsetmode_done"
  /\ args.baud = << 0 >>
  /\ raised = "none"
  /\ BaudRate = 0

----------------------------------------------------------------------------
\* C13 as stated: a call of setmode that gives a parity other than 0, 1, 2
\* or a stop_bits other than 1, 2 raises ArgumentError.
BadModeRejected ==
  [][(ModeCall /\ args'.other = {}
        /\ \/ args'.parity # << >> /\ args'.parity[1] \notin { 0, 1, 2 }
           \/ args'.stop_bits # << >> /\ args'.stop_bits[1] \notin { 1, 2 })
          => (raised' = "ArgumentError")]_vars

\* setmode has returned normally after parity: 3, stop_bits: 3, and has left
\* both settings as they were.
BadModeIgnored ==
  /\ pc = "rbsetmode_done"
  /\ args.parity = << 3 >> /\ args.stop_bits = << 3 >>
  /\ raised = "none"
  /\ ret = 0

----------------------------------------------------------------------------
NewBadUnitWithDataBits ==
  /\ pc = "rbnew_done"
  /\ args.pos = << IntArg(3) >>
  /\ args.other = { "data_bits" }
  /\ raised = "ArgumentError"

----------------------------------------------------------------------------
\* C15 as stated: when HAL_UART_Transmit returns a failure status, what
\* uart_write returns differs from what it returns on success, the full
\* byte count.
WriteReportsFailure ==
  pc = "write_done" /\ size > 0 /\ hal_status # "HAL_OK" => ret # size

\* The same for the method write, which hands on what uart_write returns.
RbWriteReportsFailure ==
  pc = "rbwrite_done" /\ rv = "integer" /\ size > 0 /\ hal_status # "HAL_OK"
    => ret # size

\* uart_write has returned the full count of a two-byte string though the
\* transmission failed.
WriteFailureHidden ==
  /\ pc = "write_done"
  /\ hal_status = "HAL_ERROR"
  /\ tx = << 65, LF >>
  /\ ret = 2

----------------------------------------------------------------------------
\* The unit a call of new asks for: the keyword unit if given, else the
\* positional argument if it is an integer, else 1.
AskedUnit(a) ==
  IF a.unit # << >> THEN a.unit[1]
  ELSE IF a.pos # << >> /\ a.pos[1].tt = "INTEGER" THEN a.pos[1]
  ELSE IntArg(1)

NewBoundSix ==
  /\ pc = "rbnew_done" /\ args.pos = << IntArg(6) >> /\ hndl = 6
NewBoundDefault ==
  /\ pc = "rbnew_done" /\ args.pos = << >> /\ args.unit = << >> /\ hndl = 1

----------------------------------------------------------------------------
\* The engine has stored nothing yet: every slot still holds the 0 of the
\* static storage (the engine stores no 0).
NothingDelivered == \A i \in Positions : rxfifo[i] = 0

\* C17: once uart_init has run and as long as the engine has delivered no
\* byte, the ring is empty: the read position is the write position,
\* uart_bytes_available, uart_is_readable and uart_can_read_line are 0, and
\* that is what calls of them return.
StartsEmpty ==
  /\ (pc # "boot" /\ NothingDelivered) =>
       /\ rx_rd = 0
       /\ rx_rd = uart_get_wr_pos
       /\ fifo = << >>
       /\ uart_bytes_available(rx_rd, U16(uart_get_wr_pos)) = 0
       /\ uart_is_readable(rx_rd, uart_get_wr_pos) = 0
       /\ uart_can_read_line(rx_rd, U16(uart_get_wr_pos)) = 0
  /\ (pc \in { "ba_done", "readable_done", "crl_done" } /\ NothingDelivered)
       => ret = 0

\* uart_can_read_line has answered 0 on the largest ring before any byte
\* was delivered.
StartedEmpty ==
  /\ pc = "crl_done"
  /\ NothingDelivered
  /\ ret = 0
  /\ rxfifo_size = RingSize

----------------------------------------------------------------------------
\* C18: the read position moves only in a copy step of uart_read or
\* uart_gets, by one slot for the one byte copied, and in the store of
\* uart_clear_rx_buffer, to the write position that call has read.  A
\* uart_read that has returned has advanced it by the bytes copied, a
\* uart_gets by the length returned.  uart_bytes_available, uart_is_readable,
\* uart_can_read_line, uart_setmode (with either result), uart_write, puts and
\* a uart_gets that returns -1 leave it where it was; and no step of the
\* application changes the content of the ring.
ReadCursorFrame ==
  /\ [][(rx_rd' # rx_rd) =>
          \/ /\ pc \in { "read_copy", "gets_copy" }
             /\ rx_rd' = (rx_rd + 1) % rxfifo_size
             /\ Len(want') = Len(want) + 1
          \/ /\ pc = "clear_store"
             /\ rx_rd' = rx_wr]_vars
  /\ [][(pc # "boot" /\ pc' # pc) => UNCHANGED << rxfifo, NDTR >>]_vars
  /\ [][(pc' # pc /\ pc \notin { "read_copy", "gets_copy", "clear_store" })
          => UNCHANGED << rx_rd, fifo >>]_vars
  /\ [](pc \in { "ba_done", "readable_done", "crl_scan", "crl_done",
                 "setmode_done", "write_done", "puts_done" } => rx_rd = rd0)
  /\ [](pc = "gets_done" /\ ret < 0 => rx_rd = rd0 /\ buf = << >>)
  /\ [](pc = "gets_done" /\ ret >= 0 => rx_rd = (rd0 + ret) % rxfifo_size)
  /\ [](pc = "read_done" => rx_rd = (rd0 + Len(buf)) % rxfifo_size)

\* A uart_gets has failed for want of room and has left the read position,
\* which earlier calls had moved, and the pending line where they were.
GetsFailedInPlace ==
  /\ pc = "gets_done"
  /\ ret = 0 - 1
  /\ rx_rd = rd0
  /\ rx_rd > 0
  /\ delimiter \in Range(fifo)

\* uart_setmode has failed with bytes pending behind a moved read position.
SetmodeFailedInPlace ==
  /\ pc = "setmode_done"
  /\ ret = 0 - 1
  /\ rx_rd = rd0
  /\ rx_rd > 0
  /\ fifo # << >>

----------------------------------------------------------------------------
\* C19: the read position is an index of the ring, 0 <= rx_rd < capacity,
\* in every state: between the operations and after every round of the copy
\* loops, whose increment and wrap never leave it at the capacity.
ReadCursorInRange ==
  /\ rx_rd \in 0 .. rxfifo_size - 1
  /\ rx_rd >= 0 /\ rx_rd < rxfifo_size
  /\ pc \in { "read_done", "gets_done", "clear_done", "idle" } =>
       rx_rd # rxfifo_size

\* A uart_gets has copied a line that ended in the last slot of the array,
\* and the read position is back at 0.
GetsEndedAtWrap ==
  /\ pc = "gets_done"
  /\ ret > 1
  /\ rd0 + ret = rxfifo_size
  /\ rx_rd = 0
  /\ rxfifo_size = RingSize

\* A clear has moved the read position to slot 0 after a lap of the engine.
ClearAtWrap ==
  /\ pc = "clear_done"
  /\ rd0 > 0
  /\ rx_rd = 0

----------------------------------------------------------------------------
\* The length of the first line in the byte sequence s (0: no delimiter).
FirstIn(s) ==
  LET hits == { k \in 1 .. Len(s) : s[k] = delimiter }
  IN  IF hits = {} THEN 0 ELSE CHOOSE k \in hits : \A j \in hits : k <= j

\* C20: uart_can_read_line reads the write position once, on entry, and that
\* value covers every byte delivered up to then; nothing changes it while
\* the scan runs.  The result is the length of the first line among the bytes
\* that were pending at that read, whatever the engine has stored since: a
\* delimiter stored after the read is not reported by this call, and, being
\* pending when the next call reads the write position, is seen by that one.
CanReadLineIsSnapshot ==
  /\ [][(pc = "idle" /\ pc' = "crl_scan") =>
          /\ rx_wr' = U16(uart_get_wr_pos)
          /\ uart_bytes_available(rx_rd, rx_wr') = Len(fifo)
          /\ mark' = Len(fifo)]_vars
  /\ [][(pc = "crl_scan") => (rx_wr' = rx_wr /\ mark' = mark)]_vars
  /\ [](pc = "crl_done" =>
          /\ uart_bytes_available(rx_rd, rx_wr) = mark
          /\ ret = FirstIn(Pending(mark))
          /\ (delimiter \notin Range(Pending(mark)) => ret = 0))

\* A call has answered 0 though a delimiter is pending: the engine stored it
\* after the call had read the write position.
LateDelimiterNotReported ==
  /\ pc = "crl_done"
  /\ ret = 0
  /\ mark > 0
  /\ Len(fifo) > mark
  /\ fifo[mark + 1] = delimiter

----------------------------------------------------------------------------
\* C21: a copy loop of uart_read or uart_gets is entered with a count that
\* is at most the number of bytes that were pending at the poll before it
\* (what uart_bytes_available returned, or the line uart_can_read_line
\* found), and what is left to copy never exceeds what is pending.  So the
\* read position never passes the write position, and every byte copied is
\* one the engine has delivered.
CopyWithinPending ==
  /\ [][(pc' \in { "read_copy", "gets_copy" } /\ pc' # pc) =>
          /\ ba' > 0
          /\ ba' <= uart_bytes_available(rx_rd, rx_wr')
          /\ ba' <= mark'
          /\ mark' <= Len(fifo)]_vars
  /\ [](pc \in { "read_copy", "gets_copy" } =>
          /\ ba > 0
          /\ ba <= Len(fifo)
          /\ ba <= uart_bytes_available(rx_rd, U16(uart_get_wr_pos)))
  /\ [](pc # "boot" =>
          /\ NoByte \notin Range(want)
          /\ NoByte \notin Range(buf)
          /\ uart_bytes_available(rx_rd, U16(uart_get_wr_pos)) = Len(fifo))

\* A poll of uart_read has found fewer bytes than are still asked for, and
\* the copy loop is about to take exactly those.
CopyLimitedToPending ==
  /\ pc = "read_copy"
  /\ cnt > 0
  /\ ba = mark
  /\ ba = Len(fifo)
  /\ ba > 1

----------------------------------------------------------------------------
\* C22 as stated: a call of setmode (or of new on a unit it accepts) that
\* ends with an exception, ArgumentError after the hardware layer refused
\* the settings or NotImplementedError, leaves BaudRate, Parity, WordLength
\* and StopBits as they were before the call.
FailedConfigureKeepsMode ==
  [][(ModeCall /\ raised' # "none") => UNCHANGED cfg]_vars

\* The same for uart_setmode: a call that returns -1 has changed nothing.
FailedSetmodeKeepsMode ==
  [][(pc = "idle" /\ pc' = "setmode_done" /\ ret' = 0 - 1)
       => UNCHANGED cfg]_vars

\* setmode( baudrate: 2400, parity: 2, stop_bits: 2 ) has raised
\* ArgumentError because HAL_UART_Init failed, and the three settings are
\* stored.
FailedConfigureStored ==
  /\ pc = "rbsetmode_done"
  /\ raised = "ArgumentError"
  /\ hal_status = "HAL_ERROR"
  /\ args.baudrate = << 2400 >> /\ args.baud = << >>
  /\ args.parity = << 2 >> /\ args.stop_bits = << 2 >>
  /\ BaudRate = 2400 /\ Parity = "EVEN" /\ WordLength = "9B" /\ StopBits = "2"

----------------------------------------------------------------------------
\* C23: in a call of setmode that reaches uart_setmode, a parameter that is
\* -1 (its keyword is absent) leaves its setting as it is while the others
\* are applied: baud -1 keeps BaudRate, parity -1 keeps Parity and
\* WordLength, stop_bits -1 keeps StopBits; a parameter that is given and in
\* its domain is stored.  A call without keywords changes no setting.
SetmodeKeepsUnset ==
  [][(ModeCall /\ SetmodeCallsUart(args')) =>
       LET b  == KwBaudValue(args')
           p  == KwIntValue(args'.parity)
           sb == KwIntValue(args'.stop_bits)
       IN  /\ b = 0 - 1 => BaudRate' = BaudRate
           /\ b >= 0 => BaudRate' = b
           /\ p = 0 - 1 => Parity' = Parity /\ WordLength' = WordLength
           /\ p = 2 => Parity' = "EVEN" /\ WordLength' = "9B"
           /\ sb = 0 - 1 => StopBits' = StopBits
           /\ sb = 2 => StopBits' = "2"
           /\ (~ BaudGiven(args') /\ args'.parity = << >>
                 /\ args'.stop_bits = << >>) => UNCHANGED cfg]_vars

\* The same for uart_setmode itself, for every argument list.
UartSetmodeKeepsUnset ==
  [][\A b \in BaudArgs, p \in ModeArgs, sb \in ModeArgs, st \in HalStatus :
       uart_setmode(b, p, sb, st) =>
         /\ b = 0 - 1 => BaudRate' = BaudRate
         /\ b >= 0 => BaudRate' = b
         /\ p = 0 - 1 => Parity' = Parity /\ WordLength' = WordLength
         /\ p = 1 => Parity' = "ODD" /\ WordLength' = "9B"
         /\ sb = 0 - 1 => StopBits' = StopBits
         /\ sb = 1 => StopBits' = "1"
         /\ (b = 0 - 1 /\ p = 0 - 1 /\ sb = 0 - 1) => UNCHANGED cfg]_vars

\* setmode( parity: 2 ) has set the parity of a unit whose baud rate and stop
\* bits an earlier call had set, and has left those two alone.
SetmodeParityOnly ==
  /\ pc = "rbsetmode_done"
  /\ raised = "none"
  /\ args.parity = << 2 >>
  /\ ~ BaudGiven(args) /\ args.stop_bits = << >>
  /\ Parity = "EVEN" /\ BaudRate = 2400 /\ StopBits = "2"

\* setmode without keywords has returned on a unit whose mode had been set.
SetmodeNoKeywords ==
  /\ pc = "rbsetmode_done"
  /\ raised = "none"
  /\ ~ BaudGiven(args) /\ args.parity = << >> /\ args.stop_bits = << >>
  /\ args.other = {}
  /\ Parity = "EVEN" /\ BaudRate = 0 /\ StopBits = "2"

----------------------------------------------------------------------------
\* C24: check_boot_mode ends after at most MAX_WAIT_CYCLE polls of the
\* console.  A poll that finds a delimiter among the bytes pending at it
\* leads to the clear and to the result 1; a poll that finds none leads to
\* the next round.  So the result is 1 exactly when a line was pending at one
\* of the polls, and 0 after MAX_WAIT_CYCLE polls that found none.  With
\* the result 1 the read position is the write position
\* uart_clear_rx_buffer has read; with the result 0 it is where it was.
BootModeDecided ==
  /\ [](boot_i \in 0 .. MAX_WAIT_CYCLE)
  /\ [][(pc = "boot_scan" /\ pc' # pc) =>
          IF delimiter \in Range(Pending(mark))
            THEN pc' = "boot_clear" /\ boot_i' = boot_i
            ELSE pc' = "boot_loop" /\ boot_i' = boot_i + 1]_vars
  /\ [][(pc' = "boot_done" /\ pc' # pc) =>
          \/ pc = "boot_clear_store" /\ ret' = 1
          \/ pc = "boot_loop" /\ boot_i = MAX_WAIT_CYCLE /\ ret' = 0]_vars
  /\ [](pc = "boot_done" =>
          /\ ret \in { 0, 1 }
          /\ ret = 1 =>
               /\ boot_i < MAX_WAIT_CYCLE
               /\ rx_rd = rx_wr
               /\ uart_bytes_available(rx_rd, U16(uart_get_wr_pos)) = Len(fifo)
          /\ ret = 0 =>
               /\ boot_i = MAX_WAIT_CYCLE
               /\ rx_rd = rd0)
  /\ (pc = "boot_loop" ~> pc = "boot_done")

\* check_boot_mode has returned 1 at its last poll, after bytes without a
\* delimiter had been pending, and has dropped them with the line.
BootLineAtLastPoll ==
  /\ pc = "boot_done"
  /\ ret = 1
  /\ boot_i = MAX_WAIT_CYCLE - 1
  /\ mark > 1
  /\ rx_rd > 1

\* check_boot_mode has returned 0 with bytes pending that hold no delimiter.
BootTimedOut ==
  /\ pc = "boot_done"
  /\ ret = 0
  /\ fifo # << >>
  /\ boot_i = MAX_WAIT_CYCLE

----------------------------------------------------------------------------
\* C25 as stated: for every frequency from DocMinFreq to DocMaxFreq,
\* spi_setmode leaves its loop with an index n of TBL_PRESCALER, 0 <= n <= 7
\* and never the length of the table, and the prescaler stored is the
\* smallest P of the table with SPI_BASEFREQ / P <= frequency.
PrescalerInTable ==
  (spi_freq >= DocMinFreq /\ spi_freq <= DocMaxFreq) =>
    /\ spi_n \in 0 .. NUM_TBL_PRESCALER - 1
    /\ spi_n # NUM_TBL_PRESCALER
    /\ BaudRatePrescaler = TBL_PRESCALER[spi_n + 1]
    /\ SPI_BASEFREQ \div BaudRatePrescaler <= spi_freq
    /\ \A k \in 1 .. spi_n : SPI_BASEFREQ \div TBL_PRESCALER[k] > spi_freq

\* spi_setmode( frequency: 164000 ) has left its loop with n = 8, the length
\* of the table.
PrescalerBehindTable ==
  /\ spi_freq = DocMinFreq
  /\ spi_n = NUM_TBL_PRESCALER

\* From SPI_BASEFREQ / 256 (164062 in integers) upwards the claim holds.
PrescalerInTableFromSlowest ==
  (spi_freq >= SPI_BASEFREQ \div 256 /\ spi_freq <= DocMaxFreq) =>
    /\ spi_n \in 0 .. NUM_TBL_PRESCALER - 1
    /\ BaudRatePrescaler = TBL_PRESCALER[spi_n + 1]
    /\ SPI_BASEFREQ \div BaudRatePrescaler <= spi_freq
    /\ \A k \in 1 .. spi_n : SPI_BASEFREQ \div TBL_PRESCALER[k] > spi_freq

----------------------------------------------------------------------------
\* The port number names an entry of TBL_PORT_TO_STM32GPIO that is a port.
PortExists(port) ==
  /\ port + 1 <= Len(TBL_PORT_TO_STM32GPIO)
  /\ TBL_PORT_TO_STM32GPIO[port + 1] # NullPort

\* C26 as stated: gpio_set_pin_handle returns 0 only with num in 0..15 and
\* port in A=1..G=7 naming an existing port of the table, for "Pxn" strings
\* and for Arduino pin numbers; on every rejected input it returns -1 with
\* port = 0 and num = 0.
PinHandleValid ==
  gpio_val # << >> =>
    /\ gpio_ret \in { 0, 0 - 1 }
    /\ gpio_ret = 0 =>
         /\ pin.num \in 0 .. 15
         /\ pin.port \in 1 .. 7
         /\ PortExists(pin.port)
    /\ gpio_ret = 0 - 1 => pin = [port |-> 0, num |-> 0]

\* "PF0" was accepted: port 6, whose table entry is null.
PinHandleNullPort ==
  /\ gpio_val = << [tt |-> "MRBC_TT_STRING", s |-> << "P", "F", "0" >>] >>
  /\ gpio_ret = 0
  /\ pin = [port |-> 6, num |-> 0]

\* "PZ0" was accepted: port 26, behind the end of the table.
PinHandleBehindTable ==
  /\ gpio_val = << [tt |-> "MRBC_TT_STRING", s |-> << "P", "Z", "0" >>] >>
  /\ gpio_ret = 0
  /\ pin.port = 26

\* "PA256" was accepted as PA0: the number is cut to eight bits before the
\* test against 15.
PinHandleWrapped ==
  /\ gpio_val = << [tt |-> "MRBC_TT_STRING", s |-> << "P", "A", "2", "5", "6" >>] >>
  /\ gpio_ret = 0
  /\ pin = [port |-> 1, num |-> 0]

\* What does hold: Arduino pin numbers give an existing port, accepted
\* strings a num of 0..15, and every rejected input -1 with port = num = 0.
PinHandleArduinoValid ==
  gpio_val # << >> =>
    /\ gpio_ret \in { 0, 0 - 1 }
    /\ gpio_ret = 0 => pin.num \in 0 .. 15
    /\ (gpio_ret = 0 /\ gpio_val[1].tt = "MRBC_TT_INTEGER") =>
         /\ gpio_val[1].i \in 0 .. 15
         /\ PortExists(pin.port) /\ pin.port \in 1 .. 7
    /\ gpio_ret = 0 - 1 => pin = [port |-> 0, num |-> 0]

----------------------------------------------------------------------------
\* C27: puts(s) transmits the bytes of s followed by exactly one line feed
\* when s is empty or does not end with a line feed, and s alone when s ends
\* with a line feed; the output of every puts ends with a line feed and
\* never with two added ones.
PutsEndsLine ==
  [][\A s \in TxStrings, st \in HalStatus :
       CallPuts(s, st) =>
         /\ tx' = (tx \o s) \o (IF Len(s) = 0 \/ s[Len(s)] # LF
                                  THEN << LF >> ELSE << >>)
         /\ Len(tx') > 0 /\ tx'[Len(tx')] = LF
         /\ Len(tx') - Len(tx) - Len(s) \in { 0, 1 }
         /\ (Len(s) > 0 /\ s[Len(s)] = LF) => tx' = tx \o s]_vars

\* puts("A\n") is done and has transmitted the two bytes of s, nothing more.
PutsKeptLine ==
  /\ pc = "puts_done"
  /\ size = 2
  /\ tx = << 65, LF >>
  /\ hal_status = "HAL_OK"

\* puts("") is done and has transmitted one line feed.
PutsEmptyLine ==
  /\ pc = "puts_done"
  /\ size = 0
  /\ tx = << LF >>

----------------------------------------------------------------------------
\* C28: uart_read(size) with size >= capacity completes while the engine
\* keeps delivering: the bytes pending at a poll are always fewer than size,
\* so the call consumes them in more than one piece, as they arrive, and
\* returns size with size bytes copied.
ReadBeyondCapacityCompletes ==
  /\ ((pc = "read_loop" /\ size >= rxfifo_size)
        ~> (pc = "read_done" /\ size >= rxfifo_size /\ ret = size))
  /\ []((pc \in { "read_loop", "read_copy" } /\ size >= rxfifo_size) =>
          uart_bytes_available(rx_rd, U16(uart_get_wr_pos)) < size)
  /\ []((pc = "read_copy" /\ size >= rxfifo_size) => (ba > 0 /\ ba < size))
  /\ []((pc = "read_done" /\ size >= rxfifo_size) =>
          (chunks >= 2 /\ Len(buf) = size))

\* uart_read(3) on a ring of two slots has returned its three bytes, copied
\* in three pieces.
ReadBeyondCapacityDone ==
  /\ pc = "read_done"
  /\ rxfifo_size = 2
  /\ size = 3 /\ ret = 3
  /\ Len(buf) = 3
  /\ chunks = 3

----------------------------------------------------------------------------
\* C29: in the method gets, once uart_can_read_line has returned len > 0,
\* the uart_read of len bytes finds them pending at every moment, whatever
\* the engine stores meanwhile, and copies them in one piece; it returns
\* exactly the len bytes of the first pending line, delimiter last, rx_rd
\* has advanced by len, and the method never ends in the failure of
\* uart_gets whose buffer is too small.
RbGetsReadsAtOnce ==
  /\ [](method = "gets" /\ pc = "read_loop" /\ cnt > 0 =>
          /\ len > 0 /\ cnt = len /\ size = len
          /\ uart_bytes_available(rx_rd, U16(uart_get_wr_pos)) >= cnt)
  /\ [](method = "gets" /\ pc = "read_copy" => chunks = 1)
  /\ [](method = "gets" /\ pc = "read_done" =>
          /\ chunks = 1
          /\ ret = len /\ Len(buf) = len
          /\ IsLine(want) /\ buf = want
          /\ rx_rd = (rd0 + len) % rxfifo_size)
  /\ [](pc = "rbgets_done" /\ rv = "string" =>
          /\ buf = want \o << NUL >>
          /\ rx_rd = (rd0 + len) % rxfifo_size)
  /\ [](method = "gets" => (ret >= 0 /\ raised = "none"))

\* The method gets has returned a line that fills the ring, read in one
\* piece while the engine had stored behind the line since the scan.
RbGetsLineInOnePiece ==
  /\ pc = "rbgets_done"
  /\ rv = "string"
  /\ len = rxfifo_size - 1
  /\ chunks = 1
  /\ Len(fifo) > 0

----------------------------------------------------------------------------
\* The identities of the bytes instance a has returned.
ReturnedIds(a) == { returned[a][k].id : k \in 1 .. Len(returned[a]) }

\* Every unit but u is left as it was.
OthersKept(u) == \A o \in UartUnits \ { u } : uarts'[o] = uarts[o]

\* C30: ring state belongs to the unit, not to the instance.  A read, gets,
\* clear or setmode (and a new) on an instance changes no read cursor,
\* delimiter or ring content but those of the unit the instance was created
\* for; two instances created for the same unit hold the same handle and so
\* share its read cursor, and each received byte is returned to at most one
\* instance, one of its own unit, and only once.
RingStatePerUnit ==
  /\ [][/\ \A a \in Insts :
             (MultiGets(a) \/ MultiClear(a) \/ MultiSetmode(a, 9600))
               => OthersKept(created[a])
        /\ \A a \in Insts, unit_num \in UartUnits, baud \in MultiBauds :
             MultiNew(a, unit_num, baud) => OthersKept(unit_num)
        /\ MultiReadPoll => OthersKept(created[reading.inst])
        /\ \A a \in Insts, n \in 1 .. MaxSent :
             MultiCallRead(a, n) => uarts' = uarts]_vars
  /\ [](\A u \in UartUnits : uarts[u].delimiter = LF)
  /\ [](\A a \in Insts, c \in Insts :
          (created[a] # 0 /\ created[a] = created[c]) =>
             instances[a] = instances[c])
  /\ [](\A a \in Insts :
          /\ Cardinality(ReturnedIds(a)) = Len(returned[a])
          /\ \A x \in ReturnedIds(a) : x[1] = created[a]
          /\ \A c \in Insts \ { a } : ReturnedIds(a) \cap ReturnedIds(c) = { })

\* Two instances of unit 2 have each returned one of its bytes, and an
\* instance was never created for unit 1, whose byte is still pending.
TwoInstancesShareUnit ==
  /\ created["uart_a"] = 2 /\ created["uart_b"] = 2
  /\ Len(returned["uart_a"]) = 1 /\ Len(returned["uart_b"]) = 1
  /\ delivered[1] = 1
  /\ uarts[1].rx_rd = 0

\* Instances of two units have each returned a byte of their own unit.
TwoUnitsRead ==
  /\ created["uart_a"] = 2 /\ created["uart_b"] = 6
  /\ returned["uart_a"] # << >> /\ returned["uart_b"] # << >>

====
